---- MODULE Spec2Model ----
(***************************************************************************)
(* Predicate normalization and scan key derivation of the OLAP scan        *)
(* (be/src/exec/olap_scan_prepare.cpp): OlapScanConjunctsManager and its   *)
(* ChunkPredicateBuilder tree.                                             *)
(*                                                                         *)
(* One scan preparation is a run of the state machine:                     *)
(*   eval_const_conjuncts -> parse_conjuncts (normalize_expressions, one   *)
(*   normalize_predicate step at a time, build_olap_filters,               *)
(*   build_scan_keys, build_column_expr_predicates,                        *)
(*   _normalize_and_or_predicates) -> get_key_ranges /                     *)
(*   get_not_push_down_conjuncts.                                          *)
(* The inputs (conjunct list, tuple descriptor, key column names, options  *)
(* and configuration) are chosen by Init.                                  *)
(***************************************************************************)
EXTENDS Integers, Sequences, FiniteSets, TLC

\* ---------------------------------------------------------------------------
\* Bounds of the model
\* ---------------------------------------------------------------------------

\* RunTimeTypeLimits<TYPE_INT>: the INT domain is 0 .. MaxInt.
MaxInt == 4

\* RunTimeTypeLimits<TYPE_BIGINT>: the BIGINT domain is 0 .. MaxBigInt.
MaxBigInt == 21

\* config::max_pushdown_conditions_per_column, scaled down.
max_pushdown_conditions_per_column == 3

\* Longest conjunct list drawn by the general specifications.
MaxConjuncts == 2

\* Resolution of a timestamp: the number of time values of one day, the
\* first being the zero time.
TimeUnits == 2

\* ---------------------------------------------------------------------------
\* Small helpers
\* ---------------------------------------------------------------------------

SetMin(S) == CHOOSE x \in S : \A y \in S : x <= y

SetMax(S) == CHOOSE x \in S : \A y \in S : y <= x

RECURSIVE SetToSortedSeq(_)
\* std::set iteration order: ascending.
SetToSortedSeq(S) ==
    IF S = {} THEN << >>
    ELSE LET m == SetMin(S) IN << m >> \o SetToSortedSeq(S \ {m})

RECURSIVE FlattenSeq(_)
FlattenSeq(ss) ==
    IF ss = << >> THEN << >> ELSE Head(ss) \o FlattenSeq(Tail(ss))

Range(s) == { s[i] : i \in 1..Len(s) }

\* All sequences over S of length 0 .. n.
SeqsUpTo(S, n) == UNION { [1..k -> S] : k \in 0..n }

\* ---------------------------------------------------------------------------
\* Logical types
\* ---------------------------------------------------------------------------

\* RunTimeTypeLimits<ltype>::min_value()
TypeMin(ltype) == 0

\* RunTimeTypeLimits<ltype>::max_value()
TypeMax(ltype) == IF ltype \in {"BIGINT", "DECIMAL64"} THEN MaxBigInt ELSE MaxInt

\* ColumnRangeBuilder returns nullptr (no range) for TIME, NULL, JSON, float
\* and binary types.
HasColumnRange(ltype) == ltype \notin {"TIME", "NULL", "JSON", "FLOAT", "DOUBLE", "VARBINARY"}

\* support_column_expr_predicate(ltype): scalar types only.
support_column_expr_predicate(ltype) == ltype \notin {"JSON", "ARRAY", "MAP", "STRUCT"}

is_date_type(ltype) == ltype \in {"DATE", "DATETIME"}

is_string_type(ltype) == ltype \in {"CHAR", "VARCHAR"}

\* TypeDescriptor::is_decimalv3_type
is_decimalv3_type(ltype) == ltype \in {"DECIMAL32", "DECIMAL64", "DECIMAL128"}

\* RunTimeTypeTraits<ltype>::CppType, the type of the values a column of the
\* logical type holds.
CppType(ltype) ==
    CASE ltype \in {"INT", "DECIMAL32"} -> "int32_t"
      [] ltype \in {"BIGINT", "DECIMAL64"} -> "int64_t"
      [] ltype \in {"LARGEINT", "DECIMAL128"} -> "int128_t"
      [] ltype \in {"CHAR", "VARCHAR"} -> "Slice"
      [] ltype = "DATE" -> "DateValue"
      [] ltype = "DATETIME" -> "TimestampValue"
      [] OTHER -> ltype

\* is_decimal<ValueType>: whether the value type is one of the integers that
\* hold the unscaled value of a decimal.  It is a property of the C++ type,
\* so it holds of the value type of an INT or BIGINT slot as well.
is_decimal(value_type) == value_type \in {"int32_t", "int64_t", "int128_t"}

RECURSIVE get_scale_factor(_)
\* get_scale_factor<ValueType>(precision): ten to the power of precision.
get_scale_factor(precision) == IF precision = 0 THEN 1 ELSE 10 * get_scale_factor(precision - 1)

\* TimestampValue: the timestamp of a day and a time of the day.
Timestamp(day, time) == day * TimeUnits + time

\* implicit_cast<DateValue>(ts): the date of the timestamp, the time dropped.
TimestampToDate(ts) == ts \div TimeUnits

\* implicit_cast<TimestampValue>(date): the date at zero time.
DateToTimestamp(date) == Timestamp(date, 0)

\* ---------------------------------------------------------------------------
\* Expressions.  Every expression is a record of one shape:
\*   node      TExprNodeType  (SLOT_REF, LITERAL, CAST_EXPR, BINARY_PRED,
\*             IN_PRED, FUNCTION_CALL, COMPOUND_PRED)
\*   op        TExprOpcode    (EQ, NE, LT, LE, GT, GE, FILTER_IN,
\*             FILTER_NOT_IN, COMPOUND_AND, COMPOUND_OR, CAST, INVALID)
\*   type      logical type of the expression's value
\*   children  sequence of expressions
\*   slot_id   of a SLOT_REF
\*   col       what evaluating a constant yields: [kind, val] with kind
\*             "const" (ConstColumn), "nullable" (NullableColumn, row 0 not
\*             null), "null" (only null / row 0 null), "error" (evaluation
\*             fails)
\*   fn        name of a FUNCTION_CALL
\*   hash_set, null_in_set, is_not_in, is_rf   VectorizedInConstPredicate
\*   precision the precision of a decimal type, 0 for any other type
\* ---------------------------------------------------------------------------

NoCol == [kind |-> "none", val |-> 0]

MkExpr(node, op, type, children, slot_id, col, fn, hash_set, null_in_set, is_not_in, is_rf) ==
    [node |-> node, op |-> op, type |-> type, children |-> children,
     slot_id |-> slot_id, col |-> col, fn |-> fn, hash_set |-> hash_set,
     null_in_set |-> null_in_set, is_not_in |-> is_not_in, is_rf |-> is_rf,
     precision |-> 0]

SlotRef(id, type) ==
    MkExpr("SLOT_REF", "INVALID", type, << >>, id, NoCol, "", {}, FALSE, FALSE, FALSE)

\* A literal evaluating to the ConstColumn holding v.
Lit(type, v) ==
    MkExpr("LITERAL", "INVALID", type, << >>, -1, [kind |-> "const", val |-> v], "", {}, FALSE, FALSE, FALSE)

\* A constant expression whose evaluation yields the column col.
ConstExpr(type, col) ==
    MkExpr("LITERAL", "INVALID", type, << >>, -1, col, "", {}, FALSE, FALSE, FALSE)

Bin(op, l, r) ==
    MkExpr("BINARY_PRED", op, "BOOLEAN", << l, r >>, -1, NoCol, "", {}, FALSE, FALSE, FALSE)

\* CAST(child AS type)
Cast(type, child) ==
    MkExpr("CAST_EXPR", "CAST", type, << child >>, -1, NoCol, "", {}, FALSE, FALSE, FALSE)

InPred(l, values, null_in_set, is_not_in, is_rf) ==
    MkExpr("IN_PRED", IF is_not_in THEN "FILTER_NOT_IN" ELSE "FILTER_IN", "BOOLEAN", << l >>,
           -1, NoCol, "", values, null_in_set, is_not_in, is_rf)

\* A scalar function call; fn "is_null_pred" / "is_not_null_pred" are the
\* null tests, any other fn is opaque to the normalizer.
Fn(fn, type, children) ==
    MkExpr("FUNCTION_CALL", "INVALID", type, children, -1, NoCol, fn, {}, FALSE, FALSE, FALSE)

Or(children) ==
    MkExpr("COMPOUND_PRED", "COMPOUND_OR", "BOOLEAN", children, -1, NoCol, "", {}, FALSE, FALSE, FALSE)

And(children) ==
    MkExpr("COMPOUND_PRED", "COMPOUND_AND", "BOOLEAN", children, -1, NoCol, "", {}, FALSE, FALSE, FALSE)

is_slotref(e) == e.node = "SLOT_REF"

RECURSIVE is_constant(_)
\* Expr::is_constant: a slot reference is not constant, a literal is, a
\* non-deterministic function ("rand") is not, anything else is constant
\* iff all its children are.
is_constant(e) ==
    IF e.node = "SLOT_REF" THEN FALSE
    ELSE IF e.node = "LITERAL" THEN TRUE
    ELSE IF e.node = "FUNCTION_CALL" /\ e.fn = "rand" THEN FALSE
    ELSE \A i \in 1..Len(e.children) : is_constant(e.children[i])

RECURSIVE get_slot_ids(_)
\* Expr::get_slot_ids: appends the id of every slot reference of the tree,
\* one entry per occurrence.
get_slot_ids(e) ==
    IF e.node = "SLOT_REF" THEN << e.slot_id >>
    ELSE FlattenSeq([i \in 1..Len(e.children) |-> get_slot_ids(e.children[i])])

\* Expr::is_null_scalar_function(str)
is_null_scalar_function(e) == e.fn \in {"is_null_pred", "is_not_null_pred"}

is_null_str(e) == IF e.fn = "is_null_pred" THEN "null" ELSE "not null"

\* to_olap_filter_type(opcode, reverse)
to_olap_filter_type(op, reverse) ==
    CASE op = "LT" -> IF reverse THEN "FILTER_LARGER" ELSE "FILTER_LESS"
      [] op = "LE" -> IF reverse THEN "FILTER_LARGER_OR_EQUAL" ELSE "FILTER_LESS_OR_EQUAL"
      [] op = "GT" -> IF reverse THEN "FILTER_LESS" ELSE "FILTER_LARGER"
      [] op = "GE" -> IF reverse THEN "FILTER_LESS_OR_EQUAL" ELSE "FILTER_LARGER_OR_EQUAL"
      [] op = "EQ" -> IF reverse THEN "FILTER_NOT_IN" ELSE "FILTER_IN"
      [] op = "NE" -> IF reverse THEN "FILTER_IN" ELSE "FILTER_NOT_IN"
      [] op = "FILTER_IN" -> "FILTER_IN"
      [] op = "FILTER_NOT_IN" -> "FILTER_NOT_IN"
      [] OTHER -> "FILTER_IN"

\* ---------------------------------------------------------------------------
\* ColumnValueRange<T>: a continuous bound [low, high] with its two operators,
\* or a fixed-value set; empty marks a provably empty domain.
\* ---------------------------------------------------------------------------

\* ColumnValueRange(col_name, type, min, max): the full range of the type.
FullRange(col_name, ltype) ==
    [column_name |-> col_name, column_type |-> ltype,
     low_value |-> TypeMin(ltype), low_op |-> "FILTER_LARGER_OR_EQUAL",
     high_value |-> TypeMax(ltype), high_op |-> "FILTER_LESS_OR_EQUAL",
     fixed_values |-> {}, empty_range |-> FALSE,
     is_init_state |-> TRUE, index_filter_only |-> FALSE, present |-> TRUE]

\* No entry of the map column_value_ranges (count(name) == 0).
NoRange == [FullRange("", "NULL") EXCEPT !.present = FALSE]

is_fixed_value_range(range) == range.fixed_values # {}

is_empty_value_range(range) == range.empty_range

is_init_state(range) == range.is_init_state

set_index_filter_only(range, v) == [range EXCEPT !.index_filter_only = v]

\* Whether the value v lies within the bound of the range.
InBound(range, v) ==
    /\ IF range.low_op = "FILTER_LARGER" THEN v > range.low_value ELSE v >= range.low_value
    /\ IF range.high_op = "FILTER_LESS" THEN v < range.high_value ELSE v <= range.high_value

\* Whether the value v belongs to the domain the range stands for.
RangeContains(range, v) ==
    /\ ~range.empty_range
    /\ IF is_fixed_value_range(range) THEN v \in range.fixed_values ELSE InBound(range, v)

\* Whether v satisfies `x op v0`.
SatisfiesOp(v, op, v0) ==
    CASE op = "FILTER_LARGER" -> v > v0
      [] op = "FILTER_LARGER_OR_EQUAL" -> v >= v0
      [] op = "FILTER_LESS" -> v < v0
      [] op = "FILTER_LESS_OR_EQUAL" -> v <= v0
      [] OTHER -> FALSE

\* ColumnValueRange::add_fixed_values(op, values): [ok, range].
\* FILTER_IN intersects the values into the fixed-value set (a bound is
\* converted into the set of the given values it contains); FILTER_NOT_IN
\* excludes the values from an existing fixed-value set and is refused on a
\* range that has none.
add_fixed_values(range, op, values) ==
    IF op = "FILTER_IN" THEN
        IF range.empty_range THEN [ok |-> TRUE, range |-> range]
        ELSE LET kept == IF is_fixed_value_range(range)
                         THEN range.fixed_values \cap values
                         ELSE { v \in values : InBound(range, v) }
             IN [ok |-> TRUE,
                 range |-> [range EXCEPT !.fixed_values = kept,
                                         !.empty_range = (kept = {}),
                                         !.is_init_state = FALSE]]
    ELSE IF op = "FILTER_NOT_IN" THEN
        IF range.empty_range THEN [ok |-> TRUE, range |-> range]
        ELSE IF is_fixed_value_range(range) THEN
            LET kept == range.fixed_values \ values
            IN [ok |-> TRUE,
                range |-> [range EXCEPT !.fixed_values = kept,
                                        !.empty_range = (kept = {}),
                                        !.is_init_state = FALSE]]
        ELSE [ok |-> FALSE, range |-> range]
    ELSE [ok |-> FALSE, range |-> range]

\* ColumnValueRange::add_range(op, value): [ok, range].  A comparison filters
\* a fixed-value set or tightens the bound; other operators are refused.
add_range(range, op, value) ==
    IF op \notin {"FILTER_LARGER", "FILTER_LARGER_OR_EQUAL", "FILTER_LESS", "FILTER_LESS_OR_EQUAL"}
    THEN [ok |-> FALSE, range |-> range]
    ELSE IF range.empty_range THEN [ok |-> TRUE, range |-> range]
    ELSE IF is_fixed_value_range(range) THEN
        LET kept == { v \in range.fixed_values : SatisfiesOp(v, op, value) }
        IN [ok |-> TRUE,
            range |-> [range EXCEPT !.fixed_values = kept,
                                    !.empty_range = (kept = {}),
                                    !.is_init_state = FALSE]]
    ELSE
        LET r1 == CASE op = "FILTER_LARGER" ->
                        IF value >= range.low_value
                        THEN [range EXCEPT !.low_value = value, !.low_op = op] ELSE range
                   [] op = "FILTER_LARGER_OR_EQUAL" ->
                        IF value > range.low_value
                        THEN [range EXCEPT !.low_value = value, !.low_op = op] ELSE range
                   [] op = "FILTER_LESS" ->
                        IF value <= range.high_value
                        THEN [range EXCEPT !.high_value = value, !.high_op = op] ELSE range
                   [] OTHER ->
                        IF value < range.high_value
                        THEN [range EXCEPT !.high_value = value, !.high_op = op] ELSE range
            point == /\ r1.low_op = "FILTER_LARGER_OR_EQUAL"
                     /\ r1.high_op = "FILTER_LESS_OR_EQUAL"
                     /\ r1.low_value = r1.high_value
        IN [ok |-> TRUE,
            range |-> IF point
                      THEN [r1 EXCEPT !.fixed_values = {r1.low_value}, !.is_init_state = FALSE]
                      ELSE [r1 EXCEPT !.empty_range = ~(r1.high_value > r1.low_value),
                                      !.is_init_state = FALSE]]

\* TCondition
TCondition(column_name, condition_op, condition_values, is_index_filter_only) ==
    [column_name |-> column_name, condition_op |-> condition_op,
     condition_values |-> condition_values, is_index_filter_only |-> is_index_filter_only]

\* ColumnValueRange::to_olap_filter(filters): the native filter conditions of
\* the range, a "*=" condition for a fixed-value set, else one condition per
\* constrained side of the bound.
to_olap_filter(range) ==
    IF is_fixed_value_range(range)
    THEN << TCondition(range.column_name, "*=", SetToSortedSeq(range.fixed_values),
                       range.index_filter_only) >>
    ELSE
        (IF range.low_value # TypeMin(range.column_type) \/ range.low_op # "FILTER_LARGER_OR_EQUAL"
         THEN << TCondition(range.column_name,
                            IF range.low_op = "FILTER_LARGER_OR_EQUAL" THEN ">=" ELSE ">>",
                            << range.low_value >>, range.index_filter_only) >>
         ELSE << >>)
        \o
        (IF range.high_value # TypeMax(range.column_type) \/ range.high_op # "FILTER_LESS_OR_EQUAL"
         THEN << TCondition(range.column_name,
                            IF range.high_op = "FILTER_LESS_OR_EQUAL" THEN "<=" ELSE "<<",
                            << range.high_value >>, range.index_filter_only) >>
         ELSE << >>)

\* ---------------------------------------------------------------------------
\* Util methods of olap_scan_prepare.cpp
\* ---------------------------------------------------------------------------

\* SlotDescriptor
SlotDesc(id, col_name, ltype) ==
    [id |-> id, col_name |-> col_name, type |-> ltype, precision |-> 0]

\* Variant: no constant overflows.
check_decimal_overflow_none(ltype, precision, value) == TRUE

\* check_decimal_overflow<ValueType>(precision, value), ValueType being the
\* value type of a slot of the logical type ltype: whether the value lies
\* strictly between minus and plus the scale factor of the precision, false
\* for a value type that is no decimal.
check_decimal_overflow(ltype, precision, value) ==
    IF is_decimal(CppType(ltype))
    THEN -get_scale_factor(precision) < value /\ value < get_scale_factor(precision)
    ELSE FALSE

ignore_cast(slot, expr) ==
    IF is_date_type(slot.type) /\ is_date_type(expr.type) THEN TRUE
    ELSE is_string_type(slot.type) /\ is_string_type(expr.type)

\* The result of get_predicate_value: the bool it returns with *value, *op
\* and whether *status was set to EndOfFile; dcheck, whether every DCHECK of
\* the call held (a build with DCHECKs on aborts where it did not); ub,
\* whether the call read the constant as a value of a type it does not have,
\* which is undefined behaviour: value is then undefined_read, what the read
\* gave, which the step chooses among the values of the slot's type.  DCHECK_EQ(1u, column_ptr->size()) holds of every column of the
\* model, which has one row.
PredValue(ok, value, op, eof) ==
    [ok |-> ok, value |-> value, op |-> op, eof |-> eof, dcheck |-> TRUE, ub |-> FALSE]

NoPredValue == PredValue(FALSE, 0, "FILTER_IN", FALSE)

\* defensive check: DCHECK(false) << "unreachable path: unknown column type
\* of expr evaluate result"; return false.
UnknownColumnPredValue == [NoPredValue EXCEPT !.dcheck = FALSE]

\* The else branch of the DateValue case: DCHECK(data->is_date()) and the
\* date of the DateColumn the data is cast down to.  Data that is no
\* DateColumn fails the DCHECK and is read as one all the same.
date_column_value(r, op, undefined_read) ==
    IF r.type = "DATE" THEN PredValue(TRUE, r.col.val, op, FALSE)
    ELSE [PredValue(TRUE, undefined_read, op, FALSE) EXCEPT !.dcheck = FALSE, !.ub = TRUE]

\* The Slice branch and the final branch of get_predicate_value:
\* *value = *reinterpret_cast<const ValueType*>(data->raw_data()), whatever
\* the type of the data, and in the final branch the overflow check for a
\* constant of a decimal type, with the precision of the constant's type.
raw_data_value(slot, r, op, undefined_read) ==
    LET defined == CppType(r.type) = CppType(slot.type)
        value == IF defined THEN r.col.val ELSE undefined_read
        ok == IF ~is_string_type(slot.type) /\ is_decimalv3_type(r.type)
              THEN check_decimal_overflow(slot.type, r.precision, value)
              ELSE TRUE
    IN  [PredValue(ok, value, op, FALSE) EXCEPT !.ub = ~defined]

\* Variant: the operator is kept when the time of the timestamp is dropped.
date_predicate_value_keep_op(r, op, undefined_read) ==
    IF r.type = "DATETIME" THEN PredValue(TRUE, TimestampToDate(r.col.val), op, FALSE)
    ELSE date_column_value(r, op, undefined_read)

\* Variant: an equality with a timestamp of nonzero time is folded on the
\* truncated date.
date_predicate_value_fold_equal(r, op, undefined_read) ==
    IF r.type = "DATETIME" THEN
        LET ts == r.col.val
            value == TimestampToDate(ts)
        IN  IF DateToTimestamp(value) # ts THEN
                CASE op = "FILTER_LARGER_OR_EQUAL" -> PredValue(TRUE, value, "FILTER_LARGER", FALSE)
                  [] op = "FILTER_LESS" -> PredValue(TRUE, value, "FILTER_LESS_OR_EQUAL", FALSE)
                  [] op = "FILTER_LARGER" -> PredValue(TRUE, value, op, FALSE)
                  [] op = "FILTER_LESS_OR_EQUAL" -> PredValue(TRUE, value, op, FALSE)
                  [] op = "FILTER_IN" -> PredValue(TRUE, value, op, FALSE)
                  [] OTHER -> PredValue(FALSE, value, op, FALSE)
            ELSE PredValue(TRUE, value, op, FALSE)
    ELSE date_column_value(r, op, undefined_read)

\* The DateValue branch of get_predicate_value: the value and operator for
\* the constant r, whose data is a timestamp or a date.
date_predicate_value(r, op, undefined_read) ==
    IF r.type = "DATETIME" THEN
        LET ts == r.col.val
            value == TimestampToDate(ts)
        IN  IF DateToTimestamp(value) # ts THEN
                \* |ts| has nonzero time, rewrite predicate.
                CASE op = "FILTER_LARGER_OR_EQUAL" -> PredValue(TRUE, value, "FILTER_LARGER", FALSE)
                  [] op = "FILTER_LESS" -> PredValue(TRUE, value, "FILTER_LESS_OR_EQUAL", FALSE)
                  [] op = "FILTER_LARGER" -> PredValue(TRUE, value, op, FALSE)
                  [] op = "FILTER_LESS_OR_EQUAL" -> PredValue(TRUE, value, op, FALSE)
                  \* *status = Status::EndOfFile("predicate for date always false")
                  [] op = "FILTER_IN" -> PredValue(FALSE, value, op, TRUE)
                  [] OTHER -> PredValue(FALSE, value, op, FALSE)
            ELSE PredValue(TRUE, value, op, FALSE)
    ELSE date_column_value(r, op, undefined_read)

\* Variant: the operator is taken as written, whatever the operand order.
get_predicate_value_as_written(slot, expr, undefined_read) ==
    IF Len(expr.children) # 2 THEN NoPredValue
    ELSE
        LET \* 1. ensure |l| points to a slot ref and |r| points to a const expression.
            reverse_op == ~is_constant(expr.children[2])
            l0 == IF reverse_op THEN expr.children[2] ELSE expr.children[1]
            r == IF reverse_op THEN expr.children[1] ELSE expr.children[2]
            l == IF slot.type = "DATE" /\ l0.op = "CAST" THEN l0.children[1] ELSE l0
        IN  IF l0.type # slot.type /\ ~ignore_cast(slot, l0) THEN NoPredValue
            ELSE IF ~is_slotref(l) \/ ~is_constant(r) THEN NoPredValue
            ELSE IF Len(get_slot_ids(l)) # 1 \/ get_slot_ids(l)[1] # slot.id THEN NoPredValue
            \* 3. extract the const value from |r|.
            ELSE IF r.col.kind = "error" THEN NoPredValue
            ELSE IF r.col.kind = "null" THEN NoPredValue
            ELSE IF r.col.kind \notin {"nullable", "const"} THEN UnknownColumnPredValue
            ELSE
                LET op == to_olap_filter_type(expr.op, FALSE)
                IN  IF slot.type = "DATE" THEN date_predicate_value(r, op, undefined_read)
                    ELSE raw_data_value(slot, r, op, undefined_read)

\* get_predicate_value<ValueType>: DateValue for a DATE slot (the cast on
\* the DATE column is ignored and a timestamp constant is truncated), else
\* the Slice branch (string slots) or the final branch
\* `*value = *reinterpret_cast<const ValueType*>(...)`.  undefined_read is
\* what reading the constant as a value of another type gives.
get_predicate_value(slot, expr, undefined_read) ==
    IF Len(expr.children) # 2 THEN NoPredValue
    ELSE
        LET \* 1. ensure |l| points to a slot ref and |r| points to a const expression.
            reverse_op == ~is_constant(expr.children[2])
            l0 == IF reverse_op THEN expr.children[2] ELSE expr.children[1]
            r == IF reverse_op THEN expr.children[1] ELSE expr.children[2]
            l == IF slot.type = "DATE" /\ l0.op = "CAST" THEN l0.children[1] ELSE l0
        IN  IF l0.type # slot.type /\ ~ignore_cast(slot, l0) THEN NoPredValue
            ELSE IF ~is_slotref(l) \/ ~is_constant(r) THEN NoPredValue
            ELSE IF Len(get_slot_ids(l)) # 1 \/ get_slot_ids(l)[1] # slot.id THEN NoPredValue
            \* 3. extract the const value from |r|.
            ELSE IF r.col.kind = "error" THEN NoPredValue
            ELSE IF r.col.kind = "null" THEN NoPredValue
            ELSE IF r.col.kind \notin {"nullable", "const"} THEN UnknownColumnPredValue
            ELSE
                LET op == IF expr.op = "EQ" \/ expr.op = "NE"
                          THEN to_olap_filter_type(expr.op, FALSE)
                          ELSE to_olap_filter_type(expr.op, reverse_op)
                IN  IF slot.type = "DATE" THEN date_predicate_value(r, op, undefined_read)
                    ELSE raw_data_value(slot, r, op, undefined_read)

\* ---------------------------------------------------------------------------
\* ChunkPredicateBuilder: the per-slot normalization steps.  Each step walks
\* _exprs in order; its state is the flag array _normalized_exprs, the range
\* of the slot's column and dcheck, whether every DCHECK of the step held so
\* far.  A build with DCHECKs on aborts where dcheck turns false; the rest of
\* the state is what a build without them goes on to compute.  ub tells
\* whether the step met undefined behaviour, undefined_read[i] what a read
\* of the constant of the i-th conjunct as a value of another type gives in
\* this step.
\* ---------------------------------------------------------------------------

NormState(normalized, range) ==
    [normalized |-> normalized, range |-> range, dcheck |-> TRUE, ub |-> FALSE,
     undefined_read |-> [i \in 1..Len(normalized) |-> 0]]

\* The state st of a step after a call of get_predicate_value that gave pv:
\* a DCHECK that failed in the call and an undefined read stay on record.
Checked(st, pv) ==
    IF pv.dcheck /\ ~pv.ub THEN st
    ELSE [st EXCEPT !.dcheck = @ /\ pv.dcheck, !.ub = @ \/ pv.ub]

MarkNormalized(st, i, res) ==
    IF res.ok THEN [st EXCEPT !.normalized[i] = TRUE, !.range = res.range] ELSE st

\* if (ok && range->add_fixed_values(op, values).ok()) _normalized_exprs[i] = true,
\* pv being what get_predicate_value gave for the i-th conjunct.
fold_fixed_value(st, i, op, pv) ==
    IF pv.ok THEN Checked(MarkNormalized(st, i, add_fixed_values(st.range, op, {pv.value})), pv)
    ELSE Checked(st, pv)

\* if (ok && range->add_range(op, value).ok()) _normalized_exprs[i] = true,
\* pv being what get_predicate_value gave for the i-th conjunct.
fold_range(st, i, pv) ==
    IF pv.ok THEN Checked(MarkNormalized(st, i, add_range(st.range, pv.op, pv.value)), pv)
    ELSE Checked(st, pv)

\* Variant: the IN list is folded into the range whatever its size.
in_or_equal_iteration_any_size(exprs, slot, st, i) ==
    LET root_expr == exprs[i] IN
    IF st.normalized[i] THEN st
    ELSE IF root_expr.op = "FILTER_IN" THEN
        LET l == root_expr.children[1] IN
        IF ~is_slotref(l) \/ (l.type # slot.type /\ ~ignore_cast(slot, l)) THEN st
        ELSE IF Len(get_slot_ids(l)) = 1 /\ get_slot_ids(l)[1] = slot.id THEN
            IF root_expr.is_rf THEN st
            ELSE IF root_expr.is_not_in \/ root_expr.null_in_set THEN st
            ELSE MarkNormalized(st, i, add_fixed_values(st.range, "FILTER_IN", root_expr.hash_set))
        ELSE st
    ELSE IF root_expr.node = "BINARY_PRED" /\ to_olap_filter_type(root_expr.op, FALSE) = "FILTER_IN" THEN
        fold_fixed_value(st, i, "FILTER_IN", get_predicate_value(slot, root_expr, st.undefined_read[i]))
    ELSE st

\* One iteration of the loop of normalize_in_or_equal_predicate.
in_or_equal_iteration(exprs, slot, st, i) ==
    LET root_expr == exprs[i] IN
    IF st.normalized[i] THEN st
    \* 1. Normalize in conjuncts like 'where col in (v1, v2, v3)'
    ELSE IF root_expr.op = "FILTER_IN" THEN
        LET l == root_expr.children[1] IN
        IF ~is_slotref(l) \/ (l.type # slot.type /\ ~ignore_cast(slot, l)) THEN st
        ELSE IF Len(get_slot_ids(l)) = 1 /\ get_slot_ids(l)[1] = slot.id THEN
            \* join in runtime filter will handle by normalize_join_runtime_filter
            IF root_expr.is_rf THEN st
            ELSE IF \/ root_expr.is_not_in
                    \/ root_expr.null_in_set
                    \/ Cardinality(root_expr.hash_set) > max_pushdown_conditions_per_column
            THEN st
            ELSE MarkNormalized(st, i, add_fixed_values(st.range, "FILTER_IN", root_expr.hash_set))
        ELSE st
    \* 2. Normalize eq conjuncts like 'where col = value'
    ELSE IF root_expr.node = "BINARY_PRED" /\ to_olap_filter_type(root_expr.op, FALSE) = "FILTER_IN" THEN
        fold_fixed_value(st, i, "FILTER_IN", get_predicate_value(slot, root_expr, st.undefined_read[i]))
    ELSE st

\* The dates of the timestamps of an IN list that have zero time.
DatesOfZeroTime(hash_set) ==
    { TimestampToDate(ts) : ts \in { t \in hash_set : DateToTimestamp(TimestampToDate(t)) = t } }

\* One iteration of the loop of normalize_in_or_equal_predicate, explicit
\* specialization for DATE.  The local status set to EndOfFile when no value
\* is left is not returned.
date_in_or_equal_iteration(exprs, slot, st, i) ==
    LET root_expr == exprs[i] IN
    IF st.normalized[i] THEN st
    \* 1. Normalize in conjuncts like 'where col in (v1, v2, v3)'
    ELSE IF root_expr.op = "FILTER_IN" THEN
        LET l0 == root_expr.children[1]
            pred_type == l0.type
            \* ignore the cast on DATE.
            l == IF l0.op = "CAST" THEN l0.children[1] ELSE l0
        IN
        IF pred_type # "DATE" /\ pred_type # "DATETIME" THEN st
        ELSE IF ~is_slotref(l) THEN st
        ELSE IF Len(get_slot_ids(l)) = 1 /\ get_slot_ids(l)[1] = slot.id THEN
            IF pred_type = "DATETIME" /\ root_expr.is_rf THEN st
            ELSE IF \/ root_expr.is_not_in
                    \/ root_expr.null_in_set
                    \/ Cardinality(root_expr.hash_set) > max_pushdown_conditions_per_column
            THEN st
            ELSE
                LET values == IF pred_type = "DATETIME" THEN DatesOfZeroTime(root_expr.hash_set)
                              ELSE root_expr.hash_set
                IN  IF values = {} THEN st
                    ELSE MarkNormalized(st, i, add_fixed_values(st.range, "FILTER_IN", values))
        ELSE st
    \* 2. Normalize eq conjuncts like 'where col = value'
    ELSE IF root_expr.node = "BINARY_PRED" /\ to_olap_filter_type(root_expr.op, FALSE) = "FILTER_IN" THEN
        fold_fixed_value(st, i, "FILTER_IN", get_predicate_value(slot, root_expr, st.undefined_read[i]))
    ELSE st

\* One iteration of the loop of normalize_binary_predicate.
binary_iteration(exprs, slot, st, i) ==
    LET root_expr == exprs[i] IN
    IF st.normalized[i] THEN st
    ELSE IF root_expr.node # "BINARY_PRED" THEN st
    ELSE
        fold_range(st, i, get_predicate_value(slot, root_expr, st.undefined_read[i]))

\* One iteration of the loop of normalize_not_in_or_not_equal_predicate.
not_in_or_not_equal_iteration(exprs, slot, st, i) ==
    LET root_expr == exprs[i] IN
    IF st.normalized[i] THEN st
    \* handle not equal
    ELSE IF root_expr.node = "BINARY_PRED" /\ root_expr.op = "NE" THEN
        fold_fixed_value(st, i, "FILTER_NOT_IN", get_predicate_value(slot, root_expr, st.undefined_read[i]))
    \* handle not in
    ELSE IF root_expr.node = "IN_PRED" /\ root_expr.op = "FILTER_NOT_IN" THEN
        LET l == root_expr.children[1] IN
        IF ~is_slotref(l) \/ (l.type # slot.type /\ ~ignore_cast(slot, l)) THEN st
        ELSE IF Len(get_slot_ids(l)) = 1 /\ get_slot_ids(l)[1] = slot.id THEN
            \* RTF won't generate not in predicate:
            \* DCHECK(!pred->is_join_runtime_filter())
            LET checked == [st EXCEPT !.dcheck = @ /\ ~root_expr.is_rf] IN
            IF \/ ~root_expr.is_not_in
               \/ root_expr.null_in_set
               \/ Cardinality(root_expr.hash_set) > max_pushdown_conditions_per_column
            THEN checked
            ELSE MarkNormalized(checked, i,
                                add_fixed_values(st.range, "FILTER_NOT_IN", root_expr.hash_set))
        ELSE st
    ELSE st

\* One iteration of the first loop of normalize_join_runtime_filter (the
\* IN-list runtime filters).
join_runtime_in_filter_iteration(exprs, slot, st, i) ==
    LET root_expr == exprs[i] IN
    IF st.normalized[i] THEN st
    ELSE IF root_expr.op = "FILTER_IN" THEN
        LET l == root_expr.children[1] IN
        IF ~is_slotref(l) \/ (l.type # slot.type /\ ~ignore_cast(slot, l)) THEN st
        ELSE IF Len(get_slot_ids(l)) = 1 /\ get_slot_ids(l)[1] = slot.id THEN
            IF ~root_expr.is_rf THEN st
            ELSE
                \* Ensure we don't compute this conjuncts again in olap scanner
                LET flagged == [st EXCEPT !.normalized[i] = TRUE] IN
                IF \/ root_expr.is_not_in
                   \/ root_expr.null_in_set
                   \/ Cardinality(root_expr.hash_set) > max_pushdown_conditions_per_column
                THEN flagged
                ELSE [flagged EXCEPT !.range = add_fixed_values(st.range, "FILTER_IN",
                                                                root_expr.hash_set).range]
        ELSE st
    ELSE st

RECURSIVE LoopExprs(_, _, _, _, _)
\* Variant: the loop of a step ends after the first conjunct it folds.
LoopExprs_break_after_fold(step, exprs, slot, st, i) ==
    IF i > Len(exprs) THEN st
    ELSE LET next ==
            CASE step = "in_or_equal" ->
                    IF slot.type = "DATE" THEN date_in_or_equal_iteration(exprs, slot, st, i)
                    ELSE in_or_equal_iteration(exprs, slot, st, i)
              [] step = "binary" -> binary_iteration(exprs, slot, st, i)
              [] step = "not_in_or_not_equal" -> not_in_or_not_equal_iteration(exprs, slot, st, i)
              [] OTHER -> join_runtime_in_filter_iteration(exprs, slot, st, i)
         IN IF next.normalized # st.normalized THEN next
            ELSE LoopExprs(step, exprs, slot, next, i + 1)

\* for (size_t i = 0; i < _exprs.size(); i++) of the normalization step `step`.
LoopExprs(step, exprs, slot, st, i) ==
    IF i > Len(exprs) THEN st
    ELSE LET next ==
            CASE step = "in_or_equal" ->
                    IF slot.type = "DATE" THEN date_in_or_equal_iteration(exprs, slot, st, i)
                    ELSE in_or_equal_iteration(exprs, slot, st, i)
              [] step = "binary" -> binary_iteration(exprs, slot, st, i)
              [] step = "not_in_or_not_equal" -> not_in_or_not_equal_iteration(exprs, slot, st, i)
              [] OTHER -> join_runtime_in_filter_iteration(exprs, slot, st, i)
         IN LoopExprs(step, exprs, slot, next, i + 1)

normalize_in_or_equal_predicate(exprs, slot, st) == LoopExprs("in_or_equal", exprs, slot, st, 1)

normalize_binary_predicate(exprs, slot, st) == LoopExprs("binary", exprs, slot, st, 1)

normalize_not_in_or_not_equal_predicate(exprs, slot, st) ==
    LoopExprs("not_in_or_not_equal", exprs, slot, st, 1)

\* Whether normalize_is_null_predicate folds _exprs[i] for the slot.
IsNullTestOf(root_expr, slot) ==
    /\ root_expr.node = "FUNCTION_CALL"
    /\ is_null_scalar_function(root_expr)
    /\ Len(root_expr.children) >= 1
    /\ is_slotref(root_expr.children[1])
    /\ Len(get_slot_ids(root_expr.children[1])) = 1
    /\ get_slot_ids(root_expr.children[1])[1] = slot.id

RECURSIVE is_null_conditions(_, _, _, _)
\* The conditions normalize_is_null_predicate appends to is_null_vector.
is_null_conditions(exprs, normalized, slot, i) ==
    IF i > Len(exprs) THEN << >>
    ELSE (IF ~normalized[i] /\ IsNullTestOf(exprs[i], slot)
          THEN << TCondition(slot.col_name, "is", << is_null_str(exprs[i]) >>, FALSE) >>
          ELSE << >>)
         \o is_null_conditions(exprs, normalized, slot, i + 1)

\* The flag array after normalize_is_null_predicate.
normalize_is_null_predicate(exprs, normalized, slot) ==
    [i \in 1..Len(exprs) |-> normalized[i] \/ IsNullTestOf(exprs[i], slot)]

\* RuntimeFilterProbeDescriptor: probe_slot_id is -1 when the probe expression
\* is no slot reference; rf is the published filter or NoFilter (nullptr).
RuntimeFilterDesc(filter_id, probe_slot_id, rf) ==
    [filter_id |-> filter_id, probe_slot_id |-> probe_slot_id, rf |-> rf]

NoFilter == [arrived |-> FALSE, has_null |-> FALSE, min |-> 0, max |-> 0]

JoinRuntimeFilter(has_null, min, max) ==
    [arrived |-> TRUE, has_null |-> has_null, min |-> min, max |-> max]

\* detail::RuntimeColumnPredicateBuilder::build_minmax_range: the filter's
\* minimum and maximum are intersected into the bound.
build_minmax_range(range, rf) ==
    add_range(add_range(range, "FILTER_LARGER_OR_EQUAL", rf.min).range,
              "FILTER_LESS_OR_EQUAL", rf.max).range

RECURSIVE bloom_runtime_filter_loop(_, _, _, _, _)
\* Variant: a filter that declares a NULL member is applied like any other.
bloom_runtime_filter_loop_with_null(descriptors, slot, range, unarrived, k) ==
    IF k > Len(descriptors) THEN [range |-> range, unarrived |-> unarrived]
    ELSE
        LET desc == descriptors[k] IN
        IF desc.probe_slot_id = -1 \/ desc.probe_slot_id # slot.id
        THEN bloom_runtime_filter_loop(descriptors, slot, range, unarrived, k + 1)
        ELSE IF ~desc.rf.arrived
        THEN bloom_runtime_filter_loop(descriptors, slot, range,
                                       Append(unarrived, << desc.filter_id, slot.id >>), k + 1)
        ELSE IF FALSE
        THEN bloom_runtime_filter_loop(descriptors, slot, range, unarrived, k + 1)
        ELSE
            LET marked == IF is_init_state(range) THEN set_index_filter_only(range, TRUE) ELSE range
            IN bloom_runtime_filter_loop(descriptors, slot, build_minmax_range(marked, desc.rf),
                                         unarrived, k + 1)

\* Variant: a filter not yet published is skipped without being recorded.
bloom_runtime_filter_loop_forgetful(descriptors, slot, range, unarrived, k) ==
    IF k > Len(descriptors) THEN [range |-> range, unarrived |-> unarrived]
    ELSE
        LET desc == descriptors[k] IN
        IF desc.probe_slot_id = -1 \/ desc.probe_slot_id # slot.id
        THEN bloom_runtime_filter_loop(descriptors, slot, range, unarrived, k + 1)
        ELSE IF ~desc.rf.arrived
        THEN bloom_runtime_filter_loop(descriptors, slot, range,
                                       unarrived, k + 1)
        ELSE IF desc.rf.has_null
        THEN bloom_runtime_filter_loop(descriptors, slot, range, unarrived, k + 1)
        ELSE
            LET marked == IF is_init_state(range) THEN set_index_filter_only(range, TRUE) ELSE range
            IN bloom_runtime_filter_loop(descriptors, slot, build_minmax_range(marked, desc.rf),
                                         unarrived, k + 1)

\* Variant: the range is marked index-filter-only whatever its state.
bloom_runtime_filter_loop_mark_always(descriptors, slot, range, unarrived, k) ==
    IF k > Len(descriptors) THEN [range |-> range, unarrived |-> unarrived]
    ELSE
        LET desc == descriptors[k] IN
        IF desc.probe_slot_id = -1 \/ desc.probe_slot_id # slot.id
        THEN bloom_runtime_filter_loop(descriptors, slot, range, unarrived, k + 1)
        ELSE IF ~desc.rf.arrived
        THEN bloom_runtime_filter_loop(descriptors, slot, range,
                                       Append(unarrived, << desc.filter_id, slot.id >>), k + 1)
        ELSE IF desc.rf.has_null
        THEN bloom_runtime_filter_loop(descriptors, slot, range, unarrived, k + 1)
        ELSE
            LET marked == set_index_filter_only(range, TRUE)
            IN bloom_runtime_filter_loop(descriptors, slot, build_minmax_range(marked, desc.rf),
                                         unarrived, k + 1)

\* The second loop of normalize_join_runtime_filter (bloom runtime filter),
\* over _opts.runtime_filters->descriptors(): [range, unarrived].
bloom_runtime_filter_loop(descriptors, slot, range, unarrived, k) ==
    IF k > Len(descriptors) THEN [range |-> range, unarrived |-> unarrived]
    ELSE
        LET desc == descriptors[k] IN
        \* probe expr is slot ref and slot id matches.
        IF desc.probe_slot_id = -1 \/ desc.probe_slot_id # slot.id
        THEN bloom_runtime_filter_loop(descriptors, slot, range, unarrived, k + 1)
        \* runtime filter existed and does not have null.
        ELSE IF ~desc.rf.arrived
        THEN bloom_runtime_filter_loop(descriptors, slot, range,
                                       Append(unarrived, << desc.filter_id, slot.id >>), k + 1)
        ELSE IF desc.rf.has_null
        THEN bloom_runtime_filter_loop(descriptors, slot, range, unarrived, k + 1)
        ELSE
            LET marked == IF is_init_state(range) THEN set_index_filter_only(range, TRUE) ELSE range
            IN bloom_runtime_filter_loop(descriptors, slot, build_minmax_range(marked, desc.rf),
                                         unarrived, k + 1)

\* ---------------------------------------------------------------------------
\* OlapScanKeys: the scan key rows (begin and end key tuples) and their
\* extension by one key column's range.
\* ---------------------------------------------------------------------------

NewScanKeys ==
    [begin_scan_keys |-> << >>, end_scan_keys |-> << >>,
     begin_include |-> TRUE, end_include |-> TRUE,
     has_range_value |-> FALSE, is_convertible |-> TRUE]

set_is_convertible(scan_keys, v) == [scan_keys EXCEPT !.is_convertible = v]

has_range_value(scan_keys) == scan_keys.has_range_value

\* Every row of keys followed by every value of values (Cartesian product),
\* or one row per value when there is no row yet.
ExplodeKeys(keys, values) ==
    IF keys = << >> THEN [j \in 1..Len(values) |-> << values[j] >>]
    ELSE FlattenSeq([k \in 1..Len(keys) |->
                        [j \in 1..Len(values) |-> Append(keys[k], values[j])]])

\* Every row of keys followed by the value v, or the one row << v >>.
AppendToKeys(keys, v) ==
    IF keys = << >> THEN << << v >> >>
    ELSE [k \in 1..Len(keys) |-> Append(keys[k], v)]

\* OlapScanKeys::extend_scan_key(range, max_scan_key_num): [ok, scan_keys].
\* A fixed-value set explodes every row by its values while the row count stays
\* within the cap (or the cap is disabled); otherwise the column contributes
\* its bound and the scan keys hold a range value from then on.
extend_scan_key(scan_keys, range, max_scan_key_num) ==
    IF is_empty_value_range(range)
    THEN [ok |-> TRUE,
          scan_keys |-> [scan_keys EXCEPT !.begin_scan_keys = << >>, !.end_scan_keys = << >>]]
    ELSE IF scan_keys.has_range_value
    THEN [ok |-> FALSE, scan_keys |-> scan_keys]
    ELSE
        LET rows == IF scan_keys.begin_scan_keys = << >> THEN 1 ELSE Len(scan_keys.begin_scan_keys)
            enumerate ==
                /\ is_fixed_value_range(range)
                /\ \/ scan_keys.is_convertible
                   \/ Cardinality(range.fixed_values) * rows <= max_scan_key_num
        IN  IF enumerate
            THEN LET values == SetToSortedSeq(range.fixed_values) IN
                 [ok |-> TRUE,
                  scan_keys |-> [scan_keys EXCEPT
                      !.begin_scan_keys = ExplodeKeys(scan_keys.begin_scan_keys, values),
                      !.end_scan_keys = ExplodeKeys(scan_keys.end_scan_keys, values),
                      !.begin_include = TRUE,
                      !.end_include = TRUE]]
            ELSE LET fixed == is_fixed_value_range(range)
                     low == IF fixed THEN SetMin(range.fixed_values) ELSE range.low_value
                     high == IF fixed THEN SetMax(range.fixed_values) ELSE range.high_value
                 IN
                 [ok |-> TRUE,
                  scan_keys |-> [scan_keys EXCEPT
                      !.begin_scan_keys = AppendToKeys(scan_keys.begin_scan_keys, low),
                      !.end_scan_keys = AppendToKeys(scan_keys.end_scan_keys, high),
                      !.begin_include = fixed \/ range.low_op = "FILTER_LARGER_OR_EQUAL",
                      !.end_include = fixed \/ range.high_op = "FILTER_LESS_OR_EQUAL",
                      !.has_range_value = TRUE]]

\* OlapScanRange
OlapScanRange(begin_scan_range, end_scan_range, begin_include, end_include) ==
    [begin_scan_range |-> begin_scan_range, end_scan_range |-> end_scan_range,
     begin_include |-> begin_include, end_include |-> end_include]

\* OlapScanRange(): the default range, an unconstrained full scan.
DefaultOlapScanRange == OlapScanRange(<< >>, << >>, TRUE, TRUE)

\* OlapScanKeys::get_key_range(key_ranges): one range per scan key row.
get_key_range(scan_keys) ==
    [status |-> "OK",
     key_ranges |-> [k \in 1..Len(scan_keys.begin_scan_keys) |->
                        OlapScanRange(scan_keys.begin_scan_keys[k], scan_keys.end_scan_keys[k],
                                      scan_keys.begin_include, scan_keys.end_include)]]

\* ---------------------------------------------------------------------------
\* ChunkPredicateBuilder
\* ---------------------------------------------------------------------------

\* The column names of the model, in the order of std::map<std::string, ...>.
ColNames == << "c0", "c1", "c2", "c3" >>

ColNameSet == Range(ColNames)

\* ChunkPredicateBuilder(opts, type, exprs, allow_partial_normalized):
\* _normalized_exprs(_exprs.size()) holds one false flag per expression.
\* dcheck tells whether every DCHECK of the builder's steps held, ub whether
\* a step met undefined behaviour, undefined_read[i] what a read of the
\* constant of the i-th expression as a value of another type gave in the
\* last step.
ChunkPredicateBuilder(type, exprs, allow_partial_normalized) ==
    [type |-> type,
     exprs |-> exprs,
     allow_partial_normalized |-> allow_partial_normalized,
     normalized_exprs |-> [i \in 1..Len(exprs) |-> FALSE],
     column_value_ranges |-> [c \in ColNameSet |-> NoRange],
     olap_filters |-> << >>,
     is_null_vector |-> << >>,
     scan_keys |-> NewScanKeys,
     slot_index_to_expr_ctxs |-> << >>,
     child_builders |-> << >>,
     unarrived_rf |-> << >>,
     dcheck |-> TRUE,
     ub |-> FALSE,
     undefined_read |-> [i \in 1..Len(exprs) |-> 0]]

\* LookupOrInsert(column_value_ranges, col_name, full_range)
LookupOrInsert(column_value_ranges, col_name, full_range) ==
    IF column_value_ranges[col_name].present THEN column_value_ranges
    ELSE [column_value_ranges EXCEPT ![col_name] = full_range]

\* The steps of normalize_predicate, in the order it calls them.
NormalizeSteps ==
    << "in_or_equal", "binary", "not_in_or_not_equal", "is_null", "join_runtime_filter" >>

\* The builder with the flag array and the slot's range a step produced;
\* a DCHECK that failed in the step stays failed.
store_norm_state(b, slot, st) ==
    [b EXCEPT !.normalized_exprs = st.normalized,
              !.column_value_ranges[slot.col_name] = st.range,
              !.dcheck = @ /\ st.dcheck,
              !.ub = @ \/ st.ub]

\* The end of normalize_join_runtime_filter: st is the state after the loop
\* over the IN-list runtime filters.
store_join_runtime_filter(b, slot, normalized, bloom) ==
    [b EXCEPT !.normalized_exprs = normalized,
              !.column_value_ranges[slot.col_name] = bloom.range,
              !.unarrived_rf = bloom.unarrived]

normalize_join_runtime_filter(b, opts, slot, st) ==
    store_join_runtime_filter(b, slot, st.normalized,
        bloom_runtime_filter_loop(opts.runtime_filters, slot, st.range, b.unarrived_rf, 1))

\* The state a step of normalize_predicate starts in: the builder's flags
\* and the range of the slot's column.
StepState(b, slot) ==
    [NormState(b.normalized_exprs, b.column_value_ranges[slot.col_name])
        EXCEPT !.undefined_read = b.undefined_read]

\* One step of normalize_predicate on the builder b, whose
\* column_value_ranges has the entry of the slot's column.
with_slot_range(b, opts, slot, step) ==
    CASE step = "in_or_equal" ->
            store_norm_state(b, slot, normalize_in_or_equal_predicate(b.exprs, slot,
                StepState(b, slot)))
      [] step = "binary" ->
            store_norm_state(b, slot, normalize_binary_predicate(b.exprs, slot,
                StepState(b, slot)))
      [] step = "not_in_or_not_equal" ->
            store_norm_state(b, slot, normalize_not_in_or_not_equal_predicate(b.exprs, slot,
                StepState(b, slot)))
      [] step = "is_null" ->
            [b EXCEPT !.normalized_exprs = normalize_is_null_predicate(b.exprs, b.normalized_exprs, slot),
                      !.is_null_vector = b.is_null_vector
                            \o is_null_conditions(b.exprs, b.normalized_exprs, slot, 1)]
      [] OTHER ->
            \* Must handle join runtime filter last
            normalize_join_runtime_filter(b, opts, slot,
                LoopExprs("join_runtime_filter", b.exprs, slot,
                    StepState(b, slot), 1))

\* One step of normalize_predicate for the slot, on the builder b: the
\* range is the entry of the slot's column, which ColumnRangeBuilder looks up
\* or inserts before normalize_predicate runs.
normalize_predicate_step(b, opts, slot, step) ==
    with_slot_range(
        [b EXCEPT !.column_value_ranges =
            LookupOrInsert(@, slot.col_name, FullRange(slot.col_name, slot.type))],
        opts, slot, step)

\* The values a read of sizeof(ValueType) bytes of data of another type can
\* give a slot of the logical type: any value of the type, and one beyond
\* each end of its domain.
ReadValues(ltype) == (TypeMin(ltype) - 1)..(TypeMax(ltype) + 1)

\* get_predicate_value reads the constant of the i-th expression as a value
\* of a type it does not have.
reads_undefined(exprs, slot, i) == get_predicate_value(slot, exprs[i], 0).ub

\* What get_predicate_value may read in a step for the slot over exprs, one
\* value per expression: a constant of the slot's value type is read as what
\* it is (nothing is left to choose); a constant of another type is read as
\* a value of the slot's, which is undefined behaviour and gives any value,
\* each such constant a value of its own.
UndefinedReads(exprs, slot) ==
    IF \A i \in 1..Len(exprs) : ~reads_undefined(exprs, slot, i)
    THEN { [i \in 1..Len(exprs) |-> 0] }
    ELSE { reads \in [1..Len(exprs) -> ReadValues(slot.type)] :
                \A i \in 1..Len(exprs) : reads_undefined(exprs, slot, i) \/ reads[i] = 0 }

RECURSIVE olap_filters_loop(_, _, _)

\* Variant: an empty range is skipped instead of ending the scan.
olap_filters_loop_skip_empty(column_value_ranges, filters, k) ==
    IF k > Len(ColNames) THEN [status |-> "OK", olap_filters |-> filters]
    ELSE
        LET range == column_value_ranges[ColNames[k]] IN
        IF ~range.present \/ is_empty_value_range(range)
        THEN olap_filters_loop(column_value_ranges, filters, k + 1)
        ELSE olap_filters_loop(column_value_ranges, filters \o to_olap_filter(range), k + 1)

\* The loop of build_olap_filters over column_value_ranges from the k-th
\* column name on: [status, olap_filters].
olap_filters_loop(column_value_ranges, filters, k) ==
    IF k > Len(ColNames) THEN [status |-> "OK", olap_filters |-> filters]
    ELSE
        LET range == column_value_ranges[ColNames[k]] IN
        IF ~range.present THEN olap_filters_loop(column_value_ranges, filters, k + 1)
        ELSE IF is_empty_value_range(range)
        THEN [status |-> "EndOfFile", olap_filters |-> filters]
        ELSE olap_filters_loop(column_value_ranges, filters \o to_olap_filter(range), k + 1)

\* ChunkPredicateBuilder::build_olap_filters: [status, builder].
build_olap_filters(b) ==
    LET res == olap_filters_loop(b.column_value_ranges, << >>, 1)
    IN [status |-> res.status, builder |-> [b EXCEPT !.olap_filters = res.olap_filters]]

RECURSIVE conditional_key_columns(_, _, _)
\* Variant: a key column without range is skipped instead of ending the
\* count.
conditional_key_columns_skip_gap(column_value_ranges, key_column_names, k) ==
    IF k > Len(key_column_names) THEN 0
    ELSE IF ~column_value_ranges[key_column_names[k]].present
    THEN conditional_key_columns(column_value_ranges, key_column_names, k + 1)
    ELSE 1 + conditional_key_columns(column_value_ranges, key_column_names, k + 1)

\* The first loop of build_scan_keys: the number of leading key columns that
\* have an entry in column_value_ranges.
conditional_key_columns(column_value_ranges, key_column_names, k) ==
    IF k > Len(key_column_names) THEN 0
    ELSE IF ~column_value_ranges[key_column_names[k]].present THEN 0
    ELSE 1 + conditional_key_columns(column_value_ranges, key_column_names, k + 1)

RECURSIVE extend_loop(_, _, _, _, _, _)
\* Variant: the loop starts at the second key column.
extend_loop_from_second(scan_keys, column_value_ranges, key_column_names, n, max_scan_key_num, i) ==
    IF ~(i <= n /\ ~has_range_value(scan_keys)) THEN scan_keys
    ELSE IF i = 1
    THEN extend_loop(scan_keys, column_value_ranges, key_column_names, n, max_scan_key_num, 2)
    ELSE
        LET res == extend_scan_key(scan_keys, column_value_ranges[key_column_names[i]],
                                   max_scan_key_num)
        IN  IF ~res.ok THEN res.scan_keys
            ELSE extend_loop(res.scan_keys, column_value_ranges, key_column_names, n,
                             max_scan_key_num, i + 1)

\* Variant: once the scan keys hold a range value, the bound of every later
\* key column of the prefix is appended to the rows.
extend_loop_fold_later(scan_keys, column_value_ranges, key_column_names, n, max_scan_key_num, i) ==
    IF i > n THEN scan_keys
    ELSE IF has_range_value(scan_keys)
    THEN
        LET range == column_value_ranges[key_column_names[i]]
            fixed == is_fixed_value_range(range)
            low == IF fixed THEN SetMin(range.fixed_values) ELSE range.low_value
            high == IF fixed THEN SetMax(range.fixed_values) ELSE range.high_value
        IN  extend_loop([scan_keys EXCEPT
                            !.begin_scan_keys = AppendToKeys(scan_keys.begin_scan_keys, low),
                            !.end_scan_keys = AppendToKeys(scan_keys.end_scan_keys, high)],
                        column_value_ranges, key_column_names, n, max_scan_key_num, i + 1)
    ELSE
        LET res == extend_scan_key(scan_keys, column_value_ranges[key_column_names[i]],
                                   max_scan_key_num)
        IN  IF ~res.ok THEN res.scan_keys
            ELSE extend_loop(res.scan_keys, column_value_ranges, key_column_names, n,
                             max_scan_key_num, i + 1)

\* for (i = 0; i < conditional_key_columns && !scan_keys.has_range_value(); ++i)
extend_loop(scan_keys, column_value_ranges, key_column_names, n, max_scan_key_num, i) ==
    IF ~(i <= n /\ ~has_range_value(scan_keys)) THEN scan_keys
    ELSE
        LET res == extend_scan_key(scan_keys, column_value_ranges[key_column_names[i]],
                                   max_scan_key_num)
        IN  IF ~res.ok THEN res.scan_keys
            ELSE extend_loop(res.scan_keys, column_value_ranges, key_column_names, n,
                             max_scan_key_num, i + 1)

\* Variant: one key column with a range is extended whatever the flag.
build_scan_keys_always(b, opts, config, unlimited, max_scan_key_num) ==
    LET n == conditional_key_columns(b.column_value_ranges, opts.key_column_names, 1)
        keys0 == set_is_convertible(b.scan_keys, unlimited)
        keys1 == IF n >= 1
                 THEN extend_loop(keys0, b.column_value_ranges, opts.key_column_names, n,
                                  max_scan_key_num, 1)
                 ELSE keys0
    IN [status |-> "OK", builder |-> [b EXCEPT !.scan_keys = keys1]]

\* Variant: the flag is ignored, only two or more key columns are extended.
build_scan_keys_pairs_only(b, opts, config, unlimited, max_scan_key_num) ==
    LET n == conditional_key_columns(b.column_value_ranges, opts.key_column_names, 1)
        keys0 == set_is_convertible(b.scan_keys, unlimited)
        keys1 == IF n > 1
                 THEN extend_loop(keys0, b.column_value_ranges, opts.key_column_names, n,
                                  max_scan_key_num, 1)
                 ELSE keys0
    IN [status |-> "OK", builder |-> [b EXCEPT !.scan_keys = keys1]]

\* ChunkPredicateBuilder::build_scan_keys(unlimited, max_scan_key_num):
\* [status, builder].
build_scan_keys(b, opts, config, unlimited, max_scan_key_num) ==
    LET n == conditional_key_columns(b.column_value_ranges, opts.key_column_names, 1)
        keys0 == set_is_convertible(b.scan_keys, unlimited)
        keys1 == IF config.enable_short_key_for_one_column_filter \/ n > 1
                 THEN extend_loop(keys0, b.column_value_ranges, opts.key_column_names, n,
                                  max_scan_key_num, 1)
                 ELSE keys0
    IN [status |-> "OK", builder |-> [b EXCEPT !.scan_keys = keys1]]

\* Index (from 1) of the first slot of the tuple descriptor with the id, or 0:
\* the map slot_id_to_index of build_column_expr_predicates.
slot_id_to_index(tuple_desc, slot_id) ==
    IF \E i \in 1..Len(tuple_desc) : tuple_desc[i].id = slot_id
    THEN CHOOSE i \in 1..Len(tuple_desc) :
            /\ tuple_desc[i].id = slot_id
            /\ \A j \in 1..(i - 1) : tuple_desc[j].id # slot_id
    ELSE 0

\* Whether build_column_expr_predicates takes the expression whole as a
\* column-expression predicate: exactly one slot occurrence, of a slot of the
\* tuple whose type supports it.
is_column_expr_predicate(opts, root_expr) ==
    LET slot_ids == get_slot_ids(root_expr) IN
    /\ Len(slot_ids) = 1
    /\ slot_id_to_index(opts.tuple_desc, slot_ids[1]) # 0
    /\ support_column_expr_predicate(
           opts.tuple_desc[slot_id_to_index(opts.tuple_desc, slot_ids[1])].type)

RECURSIVE column_expr_loop(_, _, _)
\* Variant: the loop does not skip the expressions already flagged.
column_expr_loop_no_skip(b, opts, i) ==
    IF i > Len(b.exprs) THEN b
    ELSE IF ~is_column_expr_predicate(opts, b.exprs[i]) THEN column_expr_loop(b, opts, i + 1)
    ELSE
        LET index == slot_id_to_index(opts.tuple_desc, get_slot_ids(b.exprs[i])[1]) IN
        column_expr_loop(
            [b EXCEPT !.slot_index_to_expr_ctxs = Append(@, << index, b.exprs[i] >>),
                      !.normalized_exprs[i] = TRUE],
            opts, i + 1)

\* The loop of build_column_expr_predicates from the i-th expression on.
column_expr_loop(b, opts, i) ==
    IF i > Len(b.exprs) THEN b
    ELSE IF b.normalized_exprs[i] THEN column_expr_loop(b, opts, i + 1)
    ELSE IF ~is_column_expr_predicate(opts, b.exprs[i]) THEN column_expr_loop(b, opts, i + 1)
    ELSE
        LET index == slot_id_to_index(opts.tuple_desc, get_slot_ids(b.exprs[i])[1]) IN
        column_expr_loop(
            [b EXCEPT !.slot_index_to_expr_ctxs = Append(@, << index, b.exprs[i] >>),
                      !.normalized_exprs[i] = TRUE],
            opts, i + 1)

\* ChunkPredicateBuilder::build_column_expr_predicates.  The map
\* slot_index_to_expr_ctxs is kept as the list of (slot index, expression)
\* pairs in insertion order.
build_column_expr_predicates(b, opts) == column_expr_loop(b, opts, 1)

RECURSIVE normalize_slot_steps(_, _, _, _)
\* normalize_predicate for one slot from the s-th step on.
normalize_slot_steps(b, opts, slot, s) ==
    IF s > Len(NormalizeSteps) THEN b
    ELSE normalize_slot_steps(normalize_predicate_step(b, opts, slot, NormalizeSteps[s]),
                              opts, slot, s + 1)

RECURSIVE normalize_expressions_loop(_, _, _)
\* for (auto& slot : _opts.tuple_desc->decoded_slots()) from the k-th slot on;
\* ColumnRangeBuilder does nothing for a type without a range.
normalize_expressions_loop(b, opts, k) ==
    IF k > Len(opts.tuple_desc) THEN b
    ELSE IF ~HasColumnRange(opts.tuple_desc[k].type)
    THEN normalize_expressions_loop(b, opts, k + 1)
    ELSE normalize_expressions_loop(normalize_slot_steps(b, opts, opts.tuple_desc[k], 1),
                                    opts, k + 1)

\* ChunkPredicateBuilder::normalize_expressions: [status, builder].
normalize_expressions(b, opts) ==
    [status |-> "OK", builder |-> normalize_expressions_loop(b, opts, 1)]

\* StatusOr<bool> with the builder the call leaves behind.
Result(status, value, builder) == [status |-> status, value |-> value, builder |-> builder]

RECURSIVE parse_conjuncts(_, _, _)
RECURSIVE normalize_and_or_predicate(_, _, _, _)
RECURSIVE and_or_loop(_, _, _, _)
RECURSIVE and_or_iteration(_, _, _, _, _)

\* The end of _normalize_and_or_predicate: res is what the child builder's
\* parse_conjuncts returned; the child is kept in _child_builders only if it
\* normalized.  A DCHECK that failed, or undefined behaviour met, in the
\* child's parse_conjuncts stays with the process.
keep_child_builder(b, res) ==
    LET checked == [b EXCEPT !.dcheck = @ /\ res.builder.dcheck,
                             !.ub = @ \/ res.builder.ub] IN
    IF res.status # "OK" THEN Result(res.status, FALSE, checked)
    ELSE IF res.value
    THEN Result("OK", TRUE, [checked EXCEPT !.child_builders = Append(@, res.builder)])
    ELSE Result("OK", FALSE, checked)

\* Variant: the child builder of a compound OR / AND allows partial
\* normalization.
normalize_and_or_predicate_partial(b, opts, config, root_expr) ==
    IF root_expr.op = "COMPOUND_OR"
    THEN keep_child_builder(b, parse_conjuncts(
            ChunkPredicateBuilder("OR", root_expr.children, TRUE), opts, config))
    ELSE IF root_expr.op = "COMPOUND_AND"
    THEN keep_child_builder(b, parse_conjuncts(
            ChunkPredicateBuilder("AND", root_expr.children, TRUE), opts, config))
    ELSE Result("OK", FALSE, b)

\* ChunkPredicateBuilder::_normalize_and_or_predicate(root_expr): a compound
\* OR / AND gets a child builder that forbids partial normalization.
normalize_and_or_predicate(b, opts, config, root_expr) ==
    IF root_expr.op = "COMPOUND_OR"
    THEN keep_child_builder(b, parse_conjuncts(
            ChunkPredicateBuilder("OR", root_expr.children, FALSE), opts, config))
    ELSE IF root_expr.op = "COMPOUND_AND"
    THEN keep_child_builder(b, parse_conjuncts(
            ChunkPredicateBuilder("AND", root_expr.children, FALSE), opts, config))
    ELSE Result("OK", FALSE, b)

\* Variant: the loop goes on after an expression that did not normalize, also
\* when partial normalization is forbidden.
and_or_iteration_go_on(b, opts, config, i, res) ==
    IF res.status # "OK" THEN res
    ELSE and_or_loop([res.builder EXCEPT !.normalized_exprs[i] = res.value],
                     opts, config, i + 1)

\* Variant: an expression that did not normalize makes the call return false,
\* also when partial normalization is allowed.
and_or_iteration_strict(b, opts, config, i, res) ==
    IF res.status # "OK" THEN res
    ELSE IF ~res.value THEN Result("OK", FALSE, res.builder)
    ELSE and_or_loop([res.builder EXCEPT !.normalized_exprs[i] = res.value],
                     opts, config, i + 1)

\* The body of the loop of _normalize_and_or_predicates for the i-th
\* expression, res being what _normalize_and_or_predicate returned for it.
and_or_iteration(b, opts, config, i, res) ==
    IF res.status # "OK" THEN res
    ELSE IF ~res.value /\ ~b.allow_partial_normalized THEN Result("OK", FALSE, res.builder)
    ELSE and_or_loop([res.builder EXCEPT !.normalized_exprs[i] = res.value],
                     opts, config, i + 1)

\* The loop of _normalize_and_or_predicates from the i-th expression on.
and_or_loop(b, opts, config, i) ==
    IF i > Len(b.exprs) THEN Result("OK", TRUE, b)
    ELSE IF b.normalized_exprs[i] THEN and_or_loop(b, opts, config, i + 1)
    ELSE and_or_iteration(b, opts, config, i,
                          normalize_and_or_predicate(b, opts, config, b.exprs[i]))

\* ChunkPredicateBuilder::_normalize_and_or_predicates
normalize_and_or_predicates(b, opts, config) == and_or_loop(b, opts, config, 1)

\* RETURN_IF_ERROR(next step): r is [status, builder] of the steps so far.
then_build_olap_filters(r) ==
    IF r.status # "OK" THEN r ELSE build_olap_filters(r.builder)

then_build_scan_keys(r, opts, config) ==
    IF r.status # "OK" THEN r
    ELSE build_scan_keys(r.builder, opts, config, opts.scan_keys_unlimited,
                         opts.max_scan_key_num)

\* The part of parse_conjuncts under if (_allow_partial_normalized).
parse_conjuncts_partial(b, opts, config) ==
    IF b.allow_partial_normalized
    THEN then_build_scan_keys(then_build_olap_filters(normalize_expressions(b, opts)),
                              opts, config)
    ELSE [status |-> "OK", builder |-> b]

\* The rest of parse_conjuncts, r being [status, builder] of the first part.
parse_conjuncts_rest(r, opts, config) ==
    IF r.status # "OK" THEN Result(r.status, FALSE, r.builder)
    ELSE IF opts.enable_column_expr_predicate
    THEN normalize_and_or_predicates(build_column_expr_predicates(r.builder, opts), opts, config)
    ELSE normalize_and_or_predicates(r.builder, opts, config)

\* ChunkPredicateBuilder::parse_conjuncts
parse_conjuncts(b, opts, config) ==
    parse_conjuncts_rest(parse_conjuncts_partial(b, opts, config), opts, config)

\* Variant: no default range is added when there is no scan key row.
get_key_ranges_as_is(b) == get_key_range(b.scan_keys)

\* ChunkPredicateBuilder::get_key_ranges(key_ranges): [status, key_ranges].
get_key_ranges(b) ==
    LET res == get_key_range(b.scan_keys) IN
    IF res.status # "OK" THEN res
    ELSE IF res.key_ranges = << >>
    THEN [status |-> "OK", key_ranges |-> << DefaultOlapScanRange >>]
    ELSE [status |-> "OK", key_ranges |-> res.key_ranges]

\* PredicateParser: the pushed conditions for which parse_thrift_cond and
\* parse_expr_ctx give no predicate, and whether parse_expr_ctx then fails
\* with a status of its own instead of returning null.
PredicateParser(rejected, fails) == [rejected |-> rejected, fails |-> fails]

\* A pushed condition as the parser sees it: a native filter condition, a
\* null-test condition or the expression of a column-expression predicate.
Pushed(kind, item) == << kind, item >>

\* No predicate (nullptr).
NoPredicate == [node |-> "none", source |-> << >>, index_filter_only |-> FALSE, children |-> << >>]

\* ColumnPredicate parsed from the pushed condition.
ColumnPredicate(source, index_filter_only) ==
    [node |-> "column", source |-> source, index_filter_only |-> index_filter_only,
     children |-> << >>]

\* CompoundChunkPredicate::create_and() / create_or() with its children.
CompoundChunkPredicate(type, children) ==
    [node |-> type, source |-> << >>, index_filter_only |-> FALSE, children |-> children]

\* PredicateParser::parse_thrift_cond(f)
parse_thrift_cond(parser, kind, f) ==
    IF Pushed(kind, f) \in parser.rejected THEN NoPredicate
    ELSE ColumnPredicate(Pushed(kind, f), FALSE)

\* PredicateParser::parse_expr_ctx(slot_desc, state, ctx): [status, pred].
parse_expr_ctx(parser, ctx) ==
    IF Pushed("expr", ctx) \notin parser.rejected
    THEN [status |-> "OK", pred |-> ColumnPredicate(Pushed("expr", ctx), FALSE)]
    ELSE IF parser.fails THEN [status |-> "InternalError", pred |-> NoPredicate]
    ELSE [status |-> "OK", pred |-> NoPredicate]

RECURSIVE olap_filter_predicates(_, _, _, _)
\* Variant: a native filter condition the parser rejects is left out.
olap_filter_predicates_skip_invalid(parser, olap_filters, preds, k) ==
    IF k > Len(olap_filters) THEN [status |-> "OK", preds |-> preds]
    ELSE
        LET p == parse_thrift_cond(parser, "filter", olap_filters[k]) IN
        IF p = NoPredicate THEN olap_filter_predicates(parser, olap_filters, preds, k + 1)
        ELSE olap_filter_predicates(parser, olap_filters,
                Append(preds, [p EXCEPT !.index_filter_only = olap_filters[k].is_index_filter_only]),
                k + 1)

\* for (auto& f : olap_filters) of _get_column_predicates: [status, preds].
olap_filter_predicates(parser, olap_filters, preds, k) ==
    IF k > Len(olap_filters) THEN [status |-> "OK", preds |-> preds]
    ELSE
        LET p == parse_thrift_cond(parser, "filter", olap_filters[k]) IN
        IF p = NoPredicate THEN [status |-> "RuntimeError", preds |-> preds]
        ELSE olap_filter_predicates(parser, olap_filters,
                Append(preds, [p EXCEPT !.index_filter_only = olap_filters[k].is_index_filter_only]),
                k + 1)

RECURSIVE is_null_predicates(_, _, _, _)
\* for (auto& f : is_null_vector) of _get_column_predicates: [status, preds].
is_null_predicates(parser, is_null_vector, preds, k) ==
    IF k > Len(is_null_vector) THEN [status |-> "OK", preds |-> preds]
    ELSE
        LET p == parse_thrift_cond(parser, "is_null", is_null_vector[k]) IN
        IF p = NoPredicate THEN [status |-> "RuntimeError", preds |-> preds]
        ELSE is_null_predicates(parser, is_null_vector, Append(preds, p), k + 1)

\* The expressions of the map slot_index_to_expr_ctxs in the order its
\* iteration visits them: by slot index, then by insertion.
ExprCtxsInMapOrder(slot_index_to_expr_ctxs, num_slots) ==
    FlattenSeq([index \in 1..num_slots |->
                    SelectSeq(slot_index_to_expr_ctxs, LAMBDA pair : pair[1] = index)])

RECURSIVE expr_ctx_predicates(_, _, _, _)
\* for (auto& iter : slot_index_to_expr_ctxs) of _get_column_predicates:
\* [status, preds].
expr_ctx_predicates(parser, expr_ctxs, preds, k) ==
    IF k > Len(expr_ctxs) THEN [status |-> "OK", preds |-> preds]
    ELSE
        LET tmp == parse_expr_ctx(parser, expr_ctxs[k][2]) IN
        IF tmp.status # "OK" THEN [status |-> tmp.status, preds |-> preds]
        ELSE IF tmp.pred = NoPredicate THEN [status |-> "RuntimeError", preds |-> preds]
        ELSE expr_ctx_predicates(parser, expr_ctxs, Append(preds, tmp.pred), k + 1)

\* RETURN_IF / ASSIGN_OR_RETURN between the loops of _get_column_predicates.
then_is_null_predicates(r, parser, is_null_vector) ==
    IF r.status # "OK" THEN r ELSE is_null_predicates(parser, is_null_vector, r.preds, 1)

then_expr_ctx_predicates(r, parser, expr_ctxs) ==
    IF r.status # "OK" THEN r ELSE expr_ctx_predicates(parser, expr_ctxs, r.preds, 1)

\* ChunkPredicateBuilder::_get_column_predicates(parser): [status, preds].
get_column_predicates(b, opts, parser) ==
    then_expr_ctx_predicates(
        then_is_null_predicates(olap_filter_predicates(parser, b.olap_filters, << >>, 1),
                                parser, b.is_null_vector),
        parser, ExprCtxsInMapOrder(b.slot_index_to_expr_ctxs, Len(opts.tuple_desc)))

RECURSIVE get_chunk_predicate(_, _, _)
RECURSIVE child_chunk_predicates(_, _, _, _, _)

\* for (auto& child_builder : _child_builders) of get_chunk_predicate:
\* [status, pred], the children added to those of the column predicates.
child_chunk_predicates(b, opts, parser, children, k) ==
    IF k > Len(b.child_builders)
    THEN [status |-> "OK", pred |-> CompoundChunkPredicate(b.type, children)]
    ELSE
        LET child_pred == get_chunk_predicate(b.child_builders[k], opts, parser) IN
        IF child_pred.status # "OK" THEN [status |-> child_pred.status, pred |-> NoPredicate]
        ELSE child_chunk_predicates(b, opts, parser, Append(children, child_pred.pred), k + 1)

\* The part of get_chunk_predicate after ASSIGN_OR_RETURN(col_preds, ...).
with_column_predicates(b, opts, parser, col_preds) ==
    IF col_preds.status # "OK" THEN [status |-> col_preds.status, pred |-> NoPredicate]
    ELSE child_chunk_predicates(b, opts, parser, col_preds.preds, 1)

\* ChunkPredicateBuilder::get_chunk_predicate(parser): [status, pred].
get_chunk_predicate(b, opts, parser) ==
    with_column_predicates(b, opts, parser, get_column_predicates(b, opts, parser))

\* Variant: no bounds check, an index past the flag array counts as flagged.
is_pred_normalized_unchecked(b, index) ==
    index > Len(b.normalized_exprs) \/ b.normalized_exprs[index]

\* ChunkPredicateBuilder::is_pred_normalized(index), index from 1.
is_pred_normalized(b, index) ==
    index <= Len(b.normalized_exprs) /\ b.normalized_exprs[index]

\* ---------------------------------------------------------------------------
\* OlapScanConjunctsManager
\* ---------------------------------------------------------------------------

RECURSIVE not_push_down_loop(_, _, _)
\* Variant: the conjunct after a flagged one is skipped with it.
not_push_down_loop_skip_next(b, conjunct_ctxs, i) ==
    IF i > Len(conjunct_ctxs) THEN << >>
    ELSE IF ~is_pred_normalized(b, i)
    THEN << conjunct_ctxs[i] >> \o not_push_down_loop(b, conjunct_ctxs, i + 1)
    ELSE not_push_down_loop(b, conjunct_ctxs, i + 2)

\* The loop of get_not_push_down_conjuncts from the i-th conjunct on.
not_push_down_loop(b, conjunct_ctxs, i) ==
    IF i > Len(conjunct_ctxs) THEN << >>
    ELSE (IF ~is_pred_normalized(b, i) THEN << conjunct_ctxs[i] >> ELSE << >>)
         \o not_push_down_loop(b, conjunct_ctxs, i + 1)

\* OlapScanConjunctsManager::get_not_push_down_conjuncts(predicates): the
\* conjuncts appended to predicates.
get_not_push_down_conjuncts(b, conjunct_ctxs) == not_push_down_loop(b, conjunct_ctxs, 1)

RECURSIVE eval_const_loop(_, _)
\* The loop of eval_const_conjuncts from the i-th conjunct on:
\* [ret, status], the function's return value and its out-status.
eval_const_loop(conjunct_ctxs, i) ==
    IF i > Len(conjunct_ctxs) THEN [ret |-> "OK", status |-> "OK"]
    ELSE
        LET root == conjunct_ctxs[i] IN
        \* if conjunct is constant, compute direct and set eos = true
        IF ~is_constant(root) THEN eval_const_loop(conjunct_ctxs, i + 1)
        ELSE IF root.col.kind = "error" THEN [ret |-> "InternalError", status |-> "OK"]
        ELSE IF root.col.kind = "null" THEN [ret |-> "OK", status |-> "EndOfFile"]
        ELSE IF root.col.kind = "const" /\ root.col.val = 0
        THEN [ret |-> "OK", status |-> "EndOfFile"]
        ELSE eval_const_loop(conjunct_ctxs, i + 1)

\* OlapScanConjunctsManager::eval_const_conjuncts(conjunct_ctxs, status)
eval_const_conjuncts(conjunct_ctxs) == eval_const_loop(conjunct_ctxs, 1)

\* ---------------------------------------------------------------------------
\* DynamicChunkBufferLimiter
\* ---------------------------------------------------------------------------

\* The threads that call pin concurrently.
NumThreads == 2

\* The largest num_chunks of a pin call.
MaxPin == 2

\* DynamicChunkBufferLimiter::_max_capacity
MaxCapacity == 3

\* The most rows update_avg_row_bytes is told of in all.
MaxRows == 1

Threads == 1..NumThreads

\* The position of a thread: outside pin ("idle"), after the increment
\* ("check", with the request and the value read), about to undo it
\* ("unpin", with the request).  result is what its last call returned
\* ("none" before the first call, "token", "nullptr") and exceeded whether
\* the value that call read, plus its request, exceeded the capacity.
ThreadState(pc, num_chunks, prev_value, exceeded, result) ==
    [pc |-> pc, num_chunks |-> num_chunks, prev_value |-> prev_value, exceeded |-> exceeded,
     result |-> result]

\* The limiter with the given capacity and memory limit, nothing pinned:
\* _pinned_chunks_counter, _capacity, _max_capacity, _mem_limit,
\* _sum_row_bytes, _num_rows; tokens[n] is the number of live tokens of n
\* chunks, threads the position of each thread in pin, dcheck whether every
\* DCHECK_GE(prev_value, 1) of _unpin held so far.
DynamicChunkBufferLimiter(max_capacity, default_capacity, mem_limit) ==
    [pinned_chunks_counter |-> 0,
     capacity |-> default_capacity,
     max_capacity |-> max_capacity,
     mem_limit |-> mem_limit,
     sum_row_bytes |-> 0,
     num_rows |-> 0,
     tokens |-> [n \in 1..MaxPin |-> 0],
     threads |-> [t \in Threads |-> ThreadState("idle", 0, 0, FALSE, "none")],
     dcheck |-> TRUE]

\* std::max / std::min
Max(a, b) == IF a >= b THEN a ELSE b
Min(a, b) == IF a <= b THEN a ELSE b

\* The end of update_avg_row_bytes, the sums being updated.
update_capacity(l, max_chunk_rows) ==
    LET avg_row_bytes == IF l.num_rows > 0 THEN l.sum_row_bytes \div l.num_rows ELSE 0 IN
    IF avg_row_bytes = 0 THEN l
    ELSE [l EXCEPT !.capacity =
            Min(Max(l.mem_limit \div (avg_row_bytes * max_chunk_rows), 1), l.max_capacity)]

\* DynamicChunkBufferLimiter::update_avg_row_bytes
update_avg_row_bytes(l, added_sum_row_bytes, added_num_rows, max_chunk_rows) ==
    update_capacity([l EXCEPT !.sum_row_bytes = @ + added_sum_row_bytes,
                              !.num_rows = @ + added_num_rows],
                    max_chunk_rows)

\* pin: size_t prev_value = _pinned_chunks_counter.fetch_add(num_chunks);
pin_fetch_add(l, t, num_chunks) ==
    [l EXCEPT !.pinned_chunks_counter = @ + num_chunks,
              !.threads[t] = ThreadState("check", num_chunks, l.pinned_chunks_counter, FALSE, "none")]

\* Variant: a failed pin returns without undoing its increment.
pin_check_no_undo(l, t) ==
    LET th == l.threads[t] IN
    IF th.prev_value + th.num_chunks > l.capacity
    THEN [l EXCEPT !.threads[t] = ThreadState("idle", 0, 0, TRUE, "nullptr")]
    ELSE [l EXCEPT !.tokens[th.num_chunks] = @ + 1,
                   !.threads[t] = ThreadState("idle", 0, 0, FALSE, "token")]

\* Variant: the request is not added to the value read.
pin_check_prev_only(l, t) ==
    LET th == l.threads[t] IN
    IF th.prev_value > l.capacity
    THEN [l EXCEPT !.threads[t] = ThreadState("unpin", th.num_chunks, 0, TRUE, "none")]
    ELSE [l EXCEPT !.tokens[th.num_chunks] = @ + 1,
                   !.threads[t] =
                        ThreadState("idle", 0, 0, th.prev_value + th.num_chunks > l.capacity,
                                    "token")]

\* pin: if (prev_value + num_chunks > _capacity) goes on to _unpin, else
\* returns a token of num_chunks chunks.
pin_check(l, t) ==
    LET th == l.threads[t] IN
    IF th.prev_value + th.num_chunks > l.capacity
    THEN [l EXCEPT !.threads[t] = ThreadState("unpin", th.num_chunks, 0, TRUE, "none")]
    ELSE [l EXCEPT !.tokens[th.num_chunks] = @ + 1,
                   !.threads[t] = ThreadState("idle", 0, 0, FALSE, "token")]

\* Variant: one chunk more than asked is taken off the counter.
unpin_one_more(l, num_chunks) ==
    [l EXCEPT !.pinned_chunks_counter = @ - num_chunks - 1,
              !.dcheck = @ /\ l.pinned_chunks_counter >= 1]

\* DynamicChunkBufferLimiter::_unpin(num_chunks)
unpin(l, num_chunks) ==
    [l EXCEPT !.pinned_chunks_counter = @ - num_chunks,
              !.dcheck = @ /\ l.pinned_chunks_counter >= 1]

\* pin: _unpin(num_chunks); return nullptr;
pin_unpin(l, t) ==
    [unpin(l, l.threads[t].num_chunks) EXCEPT
        !.threads[t] = ThreadState("idle", 0, 0, l.threads[t].exceeded, "nullptr")]

\* The release of a token of num_chunks chunks: an atomic decrement of the
\* counter the token refers to.
release_token(l, num_chunks) ==
    [l EXCEPT !.pinned_chunks_counter = @ - num_chunks,
              !.tokens[num_chunks] = @ - 1]

\* ---------------------------------------------------------------------------
\* State
\* ---------------------------------------------------------------------------

VARIABLES
    opts,            \* OlapScanConjunctsManagerOptions: tuple_desc, key_column_names,
                     \* scan_keys_unlimited, max_scan_key_num,
                     \* enable_column_expr_predicate, runtime_filters
    config,          \* config::enable_short_key_for_one_column_filter
    conjunct_ctxs,   \* *_opts.conjunct_ctxs_ptr
    root_builder,    \* OlapScanConjunctsManager::_root_builder
    pc,              \* position of the scan preparation: [phase, slot, step]
    const_result,    \* eval_const_conjuncts: [ret, status]
    parse_result,    \* OlapScanConjunctsManager::parse_conjuncts: [status, value]
    key_ranges,      \* get_key_ranges: [status, key_ranges]
    not_push_down,   \* the list get_not_push_down_conjuncts filled
    chunk_predicate, \* get_chunk_predicate: [status, pred] and the parser it was given
    limiter          \* the DynamicChunkBufferLimiter of the scan's chunk buffer

vars == << opts, config, conjunct_ctxs, root_builder, pc, const_result, parse_result,
           key_ranges, not_push_down, chunk_predicate, limiter >>

Pc(phase, slot, step) == [phase |-> phase, slot |-> slot, step |-> step]

\* The position after the normalization of the slots before the k-th is
\* over: the first step of the next slot that has a range, or
\* build_olap_filters.
RECURSIVE NormalizeFrom(_, _)
NormalizeFrom(tuple_desc, k) ==
    IF k > Len(tuple_desc) THEN Pc("build_olap_filters", 0, 0)
    ELSE IF HasColumnRange(tuple_desc[k].type) THEN Pc("normalize", k, 1)
    ELSE NormalizeFrom(tuple_desc, k + 1)

Options(tuple_desc, key_column_names, unlimited, max_scan_key_num, col_expr, runtime_filters) ==
    [tuple_desc |-> tuple_desc, key_column_names |-> key_column_names,
     scan_keys_unlimited |-> unlimited, max_scan_key_num |-> max_scan_key_num,
     enable_column_expr_predicate |-> col_expr,
     runtime_filters |-> runtime_filters]

\* The state after the OlapScanConjunctsManager was constructed over the
\* options o, the configuration c and the conjunct list exprs.
Constructed(o, c, exprs) ==
    /\ opts = o
    /\ config = c
    /\ conjunct_ctxs = exprs
    /\ root_builder = ChunkPredicateBuilder("AND", exprs, TRUE)
    /\ pc = Pc("eval_const", 0, 0)
    /\ const_result = [ret |-> "none", status |-> "none"]
    /\ parse_result = [status |-> "none", value |-> FALSE]
    /\ key_ranges = [status |-> "none", key_ranges |-> << >>]
    /\ not_push_down = << >>
    /\ chunk_predicate = [status |-> "none", pred |-> NoPredicate, parser |-> PredicateParser({}, FALSE)]
    /\ limiter = DynamicChunkBufferLimiter(MaxCapacity, MaxCapacity, MaxCapacity)

\* ---------------------------------------------------------------------------
\* Inputs
\* ---------------------------------------------------------------------------

Config(enable_short_key) == [enable_short_key_for_one_column_filter |-> enable_short_key]

\* Constant conjuncts: a constant boolean expression and the column its
\* evaluation yields (1 is true, 0 is false).
ConstTrue == ConstExpr("BOOLEAN", [kind |-> "const", val |-> 1])
ConstFalse == ConstExpr("BOOLEAN", [kind |-> "const", val |-> 0])
ConstNull == ConstExpr("BOOLEAN", [kind |-> "null", val |-> 0])
ConstError == ConstExpr("BOOLEAN", [kind |-> "error", val |-> 0])
NullableTrue == ConstExpr("BOOLEAN", [kind |-> "nullable", val |-> 1])
NullableFalse == ConstExpr("BOOLEAN", [kind |-> "nullable", val |-> 0])

ConstConjuncts == { ConstTrue, ConstFalse, ConstNull, ConstError, NullableTrue, NullableFalse }

\* A non-deterministic expression without any slot.
RandExpr == Fn("rand", "BOOLEAN", << >>)

\* An IN list of one value more than max_pushdown_conditions_per_column.
OversizedSet == 0..max_pushdown_conditions_per_column

\* Tuple descriptor of the general specification: c0 INT, c1 DOUBLE (a type
\* without column range).
TupleA == << SlotDesc(0, "c0", "INT"), SlotDesc(1, "c1", "DOUBLE") >>

A0 == SlotRef(0, "INT")
A1 == SlotRef(1, "DOUBLE")

\* c0 < c1: two slots, never pushed.
TwoSlotExpr == Bin("LT", A0, A1)

\* abs(c0) < 2: one slot, but no comparison of the slot itself.
AbsExpr == Bin("LT", Fn("abs", "INT", << A0 >>), Lit("INT", 2))

LeafConjunctsA ==
    { Bin("EQ", A0, Lit("INT", 1)),
      Bin("EQ", A0, Lit("INT", 2)),
      Bin("GE", A0, Lit("INT", 2)),
      Bin("LT", Lit("INT", 2), A0),
      Bin("NE", A0, Lit("INT", 1)),
      InPred(A0, {1, 2}, FALSE, FALSE, FALSE),
      InPred(A0, OversizedSet, FALSE, FALSE, FALSE),
      InPred(A0, {1, 2}, FALSE, FALSE, TRUE),
      InPred(A0, OversizedSet, FALSE, FALSE, TRUE),
      InPred(A0, {1}, FALSE, TRUE, FALSE),
      Fn("is_null_pred", "BOOLEAN", << A0 >>),
      AbsExpr,
      Bin("EQ", A1, Lit("DOUBLE", 1)),
      TwoSlotExpr,
      RandExpr }

CompoundConjunctsA ==
    { Or(<< Bin("EQ", A0, Lit("INT", 1)), Bin("EQ", A0, Lit("INT", 2)) >>),
      Or(<< Bin("EQ", A0, Lit("INT", 1)), RandExpr >>),
      Or(<< Bin("EQ", A0, Lit("INT", 1)), TwoSlotExpr >>),
      Or(<< Bin("EQ", A0, Lit("INT", 1)), Bin("EQ", A1, Lit("DOUBLE", 1)), TwoSlotExpr >>),
      Or(<< And(<< Bin("GE", A0, Lit("INT", 1)), Bin("EQ", A1, Lit("DOUBLE", 1)) >>),
            Bin("EQ", A0, Lit("INT", 3)) >>),
      Or(<< And(<< Bin("GE", A0, Lit("INT", 1)), RandExpr >>), Bin("EQ", A1, Lit("DOUBLE", 1)) >>),
      Or(<< And(<< Bin("GE", A0, Lit("INT", 1)), TwoSlotExpr >>), Bin("EQ", A0, Lit("INT", 3)) >>),
      And(<< Bin("GE", A0, Lit("INT", 1)), AbsExpr >>),
      And(<< Bin("GE", A0, Lit("INT", 1)), TwoSlotExpr >>) }

ConjunctsA == LeafConjunctsA \cup CompoundConjunctsA \cup ConstConjuncts

\* ---------------------------------------------------------------------------
\* Initial states
\* ---------------------------------------------------------------------------

\* Any list of up to MaxConjuncts conjuncts over c0 INT, c1 DOUBLE, with
\* column-expression pushdown on or off.
Init ==
    \E exprs \in SeqsUpTo(ConjunctsA, MaxConjuncts) :
    \E col_expr \in BOOLEAN :
        Constructed(Options(TupleA, << "c0" >>, FALSE, 2, col_expr, << >>),
                    Config(TRUE), exprs)

\* ---------------------------------------------------------------------------
\* Actions
\* ---------------------------------------------------------------------------

\* OlapScanConjunctsManager::eval_const_conjuncts; the scan ends at once when
\* it fails or signals no rows.
EvalConstConjuncts ==
    /\ pc.phase = "eval_const"
    /\ const_result' = eval_const_conjuncts(conjunct_ctxs)
    /\ pc' = IF const_result'.ret = "OK" /\ const_result'.status = "OK"
             THEN NormalizeFrom(opts.tuple_desc, 1)
             ELSE Pc("done", 0, 0)
    /\ UNCHANGED << chunk_predicate, limiter, opts, config, conjunct_ctxs, root_builder, parse_result, key_ranges,
                    not_push_down >>

\* parse_conjuncts, normalize_expressions: one step of normalize_predicate
\* for one slot.  Where the step reads a constant as a value of another
\* type, the value read is any of ReadValues.
NormalizePredicateStep ==
    /\ pc.phase = "normalize"
    /\ \E undefined_read \in UndefinedReads(root_builder.exprs, opts.tuple_desc[pc.slot]) :
            root_builder' = normalize_predicate_step(
                                [root_builder EXCEPT !.undefined_read = undefined_read],
                                opts, opts.tuple_desc[pc.slot], NormalizeSteps[pc.step])
    /\ pc' = IF pc.step < Len(NormalizeSteps) THEN Pc("normalize", pc.slot, pc.step + 1)
             ELSE NormalizeFrom(opts.tuple_desc, pc.slot + 1)
    /\ UNCHANGED << chunk_predicate, limiter, opts, config, conjunct_ctxs, const_result, parse_result, key_ranges,
                    not_push_down >>

\* parse_conjuncts: RETURN_IF_ERROR(build_olap_filters())
BuildOlapFilters ==
    /\ pc.phase = "build_olap_filters"
    /\ LET res == build_olap_filters(root_builder) IN
        /\ root_builder' = res.builder
        /\ parse_result' = IF res.status = "OK" THEN parse_result
                           ELSE [status |-> res.status, value |-> FALSE]
        /\ pc' = IF res.status = "OK" THEN Pc("build_scan_keys", 0, 0) ELSE Pc("done", 0, 0)
    /\ UNCHANGED << chunk_predicate, limiter, opts, config, conjunct_ctxs, const_result, key_ranges, not_push_down >>

\* parse_conjuncts: RETURN_IF_ERROR(build_scan_keys(...))
BuildScanKeys ==
    /\ pc.phase = "build_scan_keys"
    /\ LET res == build_scan_keys(root_builder, opts, config, opts.scan_keys_unlimited,
                                  opts.max_scan_key_num) IN
        /\ root_builder' = res.builder
        /\ parse_result' = IF res.status = "OK" THEN parse_result
                           ELSE [status |-> res.status, value |-> FALSE]
        /\ pc' = IF res.status = "OK" THEN Pc("build_column_expr", 0, 0) ELSE Pc("done", 0, 0)
    /\ UNCHANGED << chunk_predicate, limiter, opts, config, conjunct_ctxs, const_result, key_ranges, not_push_down >>

\* parse_conjuncts: if (_opts.enable_column_expr_predicate) build_column_expr_predicates()
BuildColumnExprPredicates ==
    /\ pc.phase = "build_column_expr"
    /\ root_builder' = IF opts.enable_column_expr_predicate
                       THEN build_column_expr_predicates(root_builder, opts)
                       ELSE root_builder
    /\ pc' = Pc("normalize_and_or", 0, 0)
    /\ UNCHANGED << chunk_predicate, limiter, opts, config, conjunct_ctxs, const_result, parse_result, key_ranges,
                    not_push_down >>

\* parse_conjuncts: return _normalize_and_or_predicates(), and
\* OlapScanConjunctsManager::parse_conjuncts returns its status.
NormalizeAndOrPredicates ==
    /\ pc.phase = "normalize_and_or"
    /\ LET res == normalize_and_or_predicates(root_builder, opts, config) IN
        /\ root_builder' = res.builder
        /\ parse_result' = [status |-> res.status, value |-> res.value]
        /\ pc' = IF res.status = "OK" THEN Pc("get_key_ranges", 0, 0) ELSE Pc("done", 0, 0)
    /\ UNCHANGED << chunk_predicate, limiter, opts, config, conjunct_ctxs, const_result, key_ranges, not_push_down >>

\* OlapScanConjunctsManager::get_key_ranges
GetKeyRanges ==
    /\ pc.phase = "get_key_ranges"
    /\ key_ranges' = get_key_ranges(root_builder)
    /\ pc' = Pc("get_not_push_down", 0, 0)
    /\ UNCHANGED << chunk_predicate, limiter, opts, config, conjunct_ctxs, root_builder, const_result, parse_result,
                    not_push_down >>

\* OlapScanConjunctsManager::get_not_push_down_conjuncts
GetNotPushDownConjuncts ==
    /\ pc.phase = "get_not_push_down"
    /\ not_push_down' = not_push_down \o get_not_push_down_conjuncts(root_builder, conjunct_ctxs)
    /\ pc' = Pc("done", 0, 0)
    /\ UNCHANGED << chunk_predicate, limiter, opts, config, conjunct_ctxs, root_builder, const_result, parse_result,
                    key_ranges >>

Next ==
    \/ EvalConstConjuncts
    \/ NormalizePredicateStep
    \/ BuildOlapFilters
    \/ BuildScanKeys
    \/ BuildColumnExprPredicates
    \/ NormalizeAndOrPredicates
    \/ GetKeyRanges
    \/ GetNotPushDownConjuncts

Spec == Init /\ [][Next]_vars

\* ---------------------------------------------------------------------------
\* Consistency of the step-wise run with the handler as a whole
\* ---------------------------------------------------------------------------

\* Once parse_conjuncts has returned, the root builder and the result are
\* those of ChunkPredicateBuilder::parse_conjuncts applied to the freshly
\* constructed root builder.
ParseConjunctsAsAWhole ==
    parse_result.status # "none" =>
        LET res == parse_conjuncts(ChunkPredicateBuilder("AND", conjunct_ctxs, TRUE), opts, config)
        IN /\ res.status = parse_result.status
           /\ res.value = parse_result.value
           /\ res.builder = root_builder

\* ---------------------------------------------------------------------------
\* Compound conjuncts, the result of parse_conjuncts, the no-rows signals
\* ---------------------------------------------------------------------------

\* The scan preparation ran to its end and parse_conjuncts succeeded.
Prepared == pc.phase = "done" /\ parse_result.status = "OK"

\* Positions of the conjunct list.
ConjunctIndexes == 1..Len(conjunct_ctxs)

RECURSIVE Normalizable(_, _)
\* Whether a member of a compound predicate can be normalized by a builder
\* that forbids partial normalization: it is taken whole as a single-slot
\* column-expression predicate, or it is a compound all of whose members can
\* be normalized.
Normalizable(o, e) ==
    \/ o.enable_column_expr_predicate /\ is_column_expr_predicate(o, e)
    \/ /\ e.op \in {"COMPOUND_OR", "COMPOUND_AND"}
       /\ \A k \in 1..Len(e.children) : Normalizable(o, e.children[k])

RECURSIVE SubtreeMembers(_)
\* The members of the subtree of a compound predicate: its operands and, for
\* compound operands, theirs.
SubtreeMembers(e) ==
    IF e.op \in {"COMPOUND_OR", "COMPOUND_AND"}
    THEN Range(e.children) \cup UNION { SubtreeMembers(e.children[k]) : k \in 1..Len(e.children) }
    ELSE {}

\* The root builder rejected the i-th conjunct as a whole: flag false, no
\* child builder for it, and it is among the residual conjuncts.
RejectedWhole(i) ==
    /\ ~is_pred_normalized(root_builder, i)
    /\ \A k \in 1..Len(root_builder.child_builders) :
            root_builder.child_builders[k].exprs # conjunct_ctxs[i].children
    /\ conjunct_ctxs[i] \in Range(not_push_down)

\* C1 as stated: a compound OR conjunct with a member of its subtree that
\* cannot be normalized is rejected as a whole.
C1_OrAllOrNothingAsStated ==
    Prepared =>
        \A i \in ConjunctIndexes :
            (/\ conjunct_ctxs[i].op = "COMPOUND_OR"
             /\ \E m \in SubtreeMembers(conjunct_ctxs[i]) : ~Normalizable(opts, m))
            => RejectedWhole(i)

\* C1: a compound OR conjunct that is not itself taken whole as a single-slot
\* column-expression predicate, and one of whose operands cannot be normalized
\* (an operand is normalized when it is taken whole as a single-slot
\* column-expression predicate or is a compound whose operands all are), is
\* rejected as a whole: its flag stays false, the root builder keeps no child
\* builder for it, and it is returned residual, even when other operands could
\* have been pushed.
C1_OrAllOrNothing ==
    Prepared =>
        \A i \in ConjunctIndexes :
            (/\ conjunct_ctxs[i].op = "COMPOUND_OR"
             /\ ~(opts.enable_column_expr_predicate
                    /\ is_column_expr_predicate(opts, conjunct_ctxs[i]))
             /\ \E k \in 1..Len(conjunct_ctxs[i].children) :
                    ~Normalizable(opts, conjunct_ctxs[i].children[k]))
            => RejectedWhole(i)

\* C1 witness: a three-branch OR with a branch that could be pushed and one
\* that cannot was rejected as a whole.
C1_Witness ==
    /\ Prepared
    /\ \E i \in ConjunctIndexes :
        /\ conjunct_ctxs[i].op = "COMPOUND_OR"
        /\ Len(conjunct_ctxs[i].children) = 3
        /\ \E k \in 1..3 : Normalizable(opts, conjunct_ctxs[i].children[k])
        /\ \E k \in 1..3 : ~Normalizable(opts, conjunct_ctxs[i].children[k])
        /\ RejectedWhole(i)

\* The constant conjuncts passed and the scan preparation ran to its end.
Completed == pc.phase = "done" /\ const_result = [ret |-> "OK", status |-> "OK"]

\* Some column's value range is empty.
EmptyColumnRange ==
    \E c \in ColNameSet :
        /\ root_builder.column_value_ranges[c].present
        /\ is_empty_value_range(root_builder.column_value_ranges[c])

\* A conjunct no step of the root builder can normalize: a non-compound
\* expression that does not refer to exactly one slot, or a compound that
\* its child builder cannot normalize and is not taken whole.
Unnormalizable(e) ==
    IF e.op \in {"COMPOUND_OR", "COMPOUND_AND"} THEN ~Normalizable(opts, e)
    ELSE Len(get_slot_ids(e)) # 1

\* C2: in root mode parse_conjuncts returns OK and true whenever no column
\* range is empty, whatever the conjuncts; a conjunct that cannot be
\* normalized keeps its flag false and is among the residual conjuncts.
C2_RootModeSucceeds ==
    Completed =>
        /\ ~EmptyColumnRange => parse_result = [status |-> "OK", value |-> TRUE]
        /\ parse_result.status = "OK" =>
            \A i \in ConjunctIndexes :
                /\ Unnormalizable(conjunct_ctxs[i]) => ~is_pred_normalized(root_builder, i)
                /\ ~is_pred_normalized(root_builder, i) => conjunct_ctxs[i] \in Range(not_push_down)

\* C2 witness: parse_conjuncts succeeded on a list with a conjunct that was
\* pushed and one that cannot be normalized and is residual.
C2_Witness ==
    /\ Prepared
    /\ parse_result.value
    /\ \E i, j \in ConjunctIndexes :
        /\ Unnormalizable(conjunct_ctxs[i])
        /\ conjunct_ctxs[i] \in Range(not_push_down)
        /\ is_pred_normalized(root_builder, j)

\* The positions after build_olap_filters succeeded.
AfterOlapFilters ==
    \/ pc.phase \in {"build_scan_keys", "build_column_expr", "normalize_and_or",
                     "get_key_ranges", "get_not_push_down"}
    \/ Prepared

\* C3: parse_conjuncts returns EndOfFile, a status distinct from OK, exactly
\* when some column's value range is empty; it does so from
\* build_olap_filters, before any scan key is built.
C3_EmptyRangeIsEndOfFile ==
    /\ parse_result.status = "EndOfFile" =>
        /\ EmptyColumnRange
        /\ pc.phase = "done"
        /\ ~parse_result.value
        /\ root_builder.scan_keys = NewScanKeys
    /\ AfterOlapFilters => ~EmptyColumnRange
    /\ Completed => parse_result.status \in {"OK", "EndOfFile"}
    /\ Completed /\ EmptyColumnRange => parse_result.status = "EndOfFile"

\* C3 witness: two conjuncts on c0 with no common value made parse_conjuncts
\* return EndOfFile.
C3_Witness ==
    /\ Completed
    /\ parse_result.status = "EndOfFile"
    /\ root_builder.column_value_ranges["c0"].empty_range
    /\ Len(conjunct_ctxs) = 2

\* What the evaluation of a constant conjunct yields.
EvaluatesToNullOrFalse(e) ==
    \/ e.col.kind = "null"
    \/ e.col.kind \in {"const", "nullable"} /\ e.col.val = 0

EvaluationFails(e) == e.col.kind = "error"

\* The first constant conjunct, in list order, whose evaluation does not
\* yield true, or 0.
FirstNotTrue ==
    LET stops == { i \in ConjunctIndexes :
                      /\ is_constant(conjunct_ctxs[i])
                      /\ EvaluatesToNullOrFalse(conjunct_ctxs[i]) \/ EvaluationFails(conjunct_ctxs[i]) }
    IN IF stops = {} THEN 0 ELSE SetMin(stops)

\* C4: eval_const_conjuncts sets its out-status to EndOfFile exactly when a
\* constant conjunct evaluates to NULL or false (none before it failing to
\* evaluate); its return value is OK then, and throughout unless an
\* evaluation fails.
C4_ConstConjunctsEndOfFile ==
    const_result.ret # "none" =>
        /\ const_result.status = "EndOfFile"
            <=> (FirstNotTrue # 0 /\ EvaluatesToNullOrFalse(conjunct_ctxs[FirstNotTrue]))
        /\ const_result.ret = "OK"
            <=> (FirstNotTrue = 0 \/ ~EvaluationFails(conjunct_ctxs[FirstNotTrue]))

\* An IN predicate with more values than max_pushdown_conditions_per_column.
OversizedIn(e) ==
    /\ e.node = "IN_PRED"
    /\ e.op = "FILTER_IN"
    /\ Cardinality(e.hash_set) > max_pushdown_conditions_per_column

\* The conjunct list without its i-th conjunct.
WithoutConjunct(i) ==
    [k \in 1..(Len(conjunct_ctxs) - 1) |->
        IF k < i THEN conjunct_ctxs[k] ELSE conjunct_ctxs[k + 1]]

\* The column ranges the normalization of the list without its i-th conjunct
\* produces.
RangesWithout(i) ==
    normalize_expressions(ChunkPredicateBuilder("AND", WithoutConjunct(i), TRUE),
                          opts).builder.column_value_ranges

\* The normalization steps of parse_conjuncts are over.
AfterNormalization == AfterOlapFilters \/ Completed \/ pc.phase = "build_olap_filters"

\* C10 as stated: an oversized IN leaves the column ranges as they are
\* without it and, after a successful parse, is not flagged and is residual.
C10_OversizedInAsStated ==
    /\ AfterNormalization =>
        \A i \in ConjunctIndexes :
            OversizedIn(conjunct_ctxs[i]) => root_builder.column_value_ranges = RangesWithout(i)
    /\ Prepared =>
        \A i \in ConjunctIndexes :
            OversizedIn(conjunct_ctxs[i]) =>
                /\ ~is_pred_normalized(root_builder, i)
                /\ conjunct_ctxs[i] \in Range(not_push_down)

\* C10: an IN predicate with more values than
\* max_pushdown_conditions_per_column is never partially pushed: the column
\* ranges are what they are without it; when it is not tagged as a join
\* runtime filter and column-expression pushdown is off, it is not flagged
\* after a successful parse and get_not_push_down_conjuncts returns it.
C10_OversizedInResidual ==
    /\ AfterNormalization =>
        \A i \in ConjunctIndexes :
            OversizedIn(conjunct_ctxs[i]) => root_builder.column_value_ranges = RangesWithout(i)
    /\ Prepared =>
        \A i \in ConjunctIndexes :
            (/\ OversizedIn(conjunct_ctxs[i])
             /\ ~conjunct_ctxs[i].is_rf
             /\ ~opts.enable_column_expr_predicate)
            => /\ ~is_pred_normalized(root_builder, i)
               /\ conjunct_ctxs[i] \in Range(not_push_down)

\* C10 witness: an oversized IN next to a pushed conjunct on the same column
\* was returned residual.
C10_Witness ==
    /\ Prepared
    /\ ~opts.enable_column_expr_predicate
    /\ \E i, j \in ConjunctIndexes :
        /\ OversizedIn(conjunct_ctxs[i])
        /\ ~conjunct_ctxs[i].is_rf
        /\ conjunct_ctxs[i] \in Range(not_push_down)
        /\ is_pred_normalized(root_builder, j)
        /\ is_fixed_value_range(root_builder.column_value_ranges["c0"])

\* ---------------------------------------------------------------------------
\* Scan keys: conjuncts on key columns, key lists with and without a gap
\* ---------------------------------------------------------------------------

\* c0 INT, c1 INT, c2 DOUBLE (no column range).
TupleK == << SlotDesc(0, "c0", "INT"), SlotDesc(1, "c1", "INT"), SlotDesc(2, "c2", "DOUBLE") >>

K0 == SlotRef(0, "INT")
K1 == SlotRef(1, "INT")

KeyConjuncts ==
    { InPred(K0, {1, 2}, FALSE, FALSE, FALSE),
      InPred(K0, {1, 2, 3}, FALSE, FALSE, FALSE),
      Bin("EQ", K0, Lit("INT", 2)),
      Bin("GE", K0, Lit("INT", 1)),
      Bin("LT", K0, Lit("INT", 3)),
      InPred(K1, {0, 3}, FALSE, FALSE, FALSE),
      Bin("EQ", K1, Lit("INT", 1)),
      Bin("GT", K1, Lit("INT", 2)),
      Bin("LE", K1, Lit("INT", 2)) }

KeyLists ==
    { << "c0" >>, << "c0", "c1" >>, << "c1", "c0" >>, << "c0", "c2", "c1" >>, << "c2", "c0" >> }

\* The caps on the number of scan key rows.
ScanKeyCaps == {2, 4}

InitKeys ==
    \E exprs \in SeqsUpTo(KeyConjuncts, MaxConjuncts) :
    \E keys \in KeyLists :
    \E unlimited, short_key \in BOOLEAN :
    \E cap \in ScanKeyCaps :
        Constructed(Options(TupleK, keys, unlimited, cap, FALSE, << >>),
                    Config(short_key), exprs)

SpecKeys == InitKeys /\ [][Next]_vars

\* The positions after build_scan_keys.
AfterScanKeys ==
    \/ pc.phase \in {"build_column_expr", "normalize_and_or", "get_key_ranges", "get_not_push_down"}
    \/ Prepared

\* The number of leading key columns that have a value range.
PrefixLen ==
    LET keys == opts.key_column_names
        has_range(k) == root_builder.column_value_ranges[keys[k]].present
    IN CHOOSE n \in 0..Len(keys) :
        /\ \A k \in 1..n : has_range(k)
        /\ n = Len(keys) \/ ~has_range(n + 1)

\* C5: get_key_ranges succeeds with a list that is never empty: one range per
\* scan key row, or the single default full range when there is no row; and
\* build_scan_keys never makes parse_conjuncts return EndOfFile.
C5_KeyRangesNeverEmpty ==
    /\ key_ranges.status # "none" =>
        /\ key_ranges.status = "OK"
        /\ key_ranges.key_ranges # << >>
        /\ IF root_builder.scan_keys.begin_scan_keys = << >>
           THEN key_ranges.key_ranges = << DefaultOlapScanRange >>
           ELSE Len(key_ranges.key_ranges) = Len(root_builder.scan_keys.begin_scan_keys)
    /\ pc.phase = "build_column_expr" => parse_result.status = "none"
    /\ parse_result.status = "EndOfFile" => root_builder.scan_keys = NewScanKeys

\* C5 witness: conjuncts were pushed, no scan key row was built, and
\* get_key_ranges returned the single default range.
C5_Witness ==
    /\ Prepared
    /\ root_builder.scan_keys.begin_scan_keys = << >>
    /\ key_ranges = [status |-> "OK", key_ranges |-> << DefaultOlapScanRange >>]
    /\ \E i \in ConjunctIndexes : is_pred_normalized(root_builder, i)

\* a < b in the lexicographic order of key tuples of the same length.
LexLess(a, b) ==
    \E k \in 1..Len(a) : a[k] < b[k] /\ \A j \in 1..(k - 1) : a[j] = b[j]

\* Whether the scan range r covers the key tuple t: the leading columns of t
\* lie between the begin and the end key of r.
Covers(r, t) ==
    LET p == SubSeq(t, 1, Len(r.begin_scan_range)) IN
    /\ IF r.begin_include THEN ~LexLess(p, r.begin_scan_range) ELSE LexLess(r.begin_scan_range, p)
    /\ IF r.end_include THEN ~LexLess(r.end_scan_range, p) ELSE LexLess(p, r.end_scan_range)

\* The key tuples: one value per key column.
KeyTuples == [1..Len(opts.key_column_names) -> 0..MaxInt]

\* Whether the key tuple t satisfies the value range of every key column that
\* has one.
SatisfiesRanges(t) ==
    \A k \in 1..Len(opts.key_column_names) :
        LET range == root_builder.column_value_ranges[opts.key_column_names[k]] IN
        range.present => RangeContains(range, t[k])

\* C6: every key tuple that satisfies every key column's value range is
\* covered by one of the key ranges.
C6_KeyRangesSuperset ==
    Prepared =>
        \A t \in KeyTuples :
            SatisfiesRanges(t) => \E k \in 1..Len(key_ranges.key_ranges) :
                                        Covers(key_ranges.key_ranges[k], t)

\* C6 witness: two key columns were extended, the second by a bound after the
\* first's fixed values, and some but not all key tuples are covered.
C6_Witness ==
    /\ Prepared
    /\ Len(key_ranges.key_ranges) > 1
    /\ \A k \in 1..Len(key_ranges.key_ranges) : Len(key_ranges.key_ranges[k].begin_scan_range) = 2
    /\ root_builder.scan_keys.has_range_value
    /\ \E t \in KeyTuples : SatisfiesRanges(t)
    /\ \E t \in KeyTuples : \A k \in 1..Len(key_ranges.key_ranges) :
                                ~Covers(key_ranges.key_ranges[k], t)

\* The scan keys build_scan_keys produces from the root builder's ranges
\* when the key list is cut to its first n columns.
ScanKeysOfPrefix(n) ==
    build_scan_keys([root_builder EXCEPT !.scan_keys = NewScanKeys],
                    [opts EXCEPT !.key_column_names = SubSeq(@, 1, n)], config,
                    opts.scan_keys_unlimited, opts.max_scan_key_num).builder.scan_keys

\* C7: only the leading key columns that have a value range take part in the
\* scan keys: no row is longer than that prefix, and the scan keys are those
\* of the key list cut after the prefix, whatever ranges later key columns
\* have.
C7_ContiguousPrefix ==
    AfterScanKeys =>
        /\ \A k \in 1..Len(root_builder.scan_keys.begin_scan_keys) :
            /\ Len(root_builder.scan_keys.begin_scan_keys[k]) <= PrefixLen
            /\ Len(root_builder.scan_keys.end_scan_keys[k]) <= PrefixLen
        /\ root_builder.scan_keys = ScanKeysOfPrefix(PrefixLen)

\* C7 witness: the key list is c0, c2, c1, c2 has no range, c1 has fixed
\* values, and the rows hold c0 alone.
C7_Witness ==
    /\ Prepared
    /\ opts.key_column_names = << "c0", "c2", "c1" >>
    /\ is_fixed_value_range(root_builder.column_value_ranges["c1"])
    /\ Len(root_builder.scan_keys.begin_scan_keys) > 1
    /\ \A k \in 1..Len(root_builder.scan_keys.begin_scan_keys) :
            Len(root_builder.scan_keys.begin_scan_keys[k]) = 1

\* C8: with fewer than two leading key columns having a range and
\* enable_short_key_for_one_column_filter off, no scan key is built; with the
\* flag on and one such column, the scan keys are extended by that column.
C8_SingleColumnFlag ==
    AfterScanKeys =>
        /\ (PrefixLen < 2 /\ ~config.enable_short_key_for_one_column_filter) =>
            /\ root_builder.scan_keys =
                    set_is_convertible(NewScanKeys, opts.scan_keys_unlimited)
            /\ key_ranges.status = "OK" => key_ranges.key_ranges = << DefaultOlapScanRange >>
        /\ (PrefixLen = 1 /\ config.enable_short_key_for_one_column_filter) =>
            /\ root_builder.scan_keys.begin_scan_keys # << >>
            /\ \A k \in 1..Len(root_builder.scan_keys.begin_scan_keys) :
                    Len(root_builder.scan_keys.begin_scan_keys[k]) = 1
            /\ root_builder.scan_keys =
                    extend_scan_key(set_is_convertible(NewScanKeys, opts.scan_keys_unlimited),
                                    root_builder.column_value_ranges[opts.key_column_names[1]],
                                    opts.max_scan_key_num).scan_keys

\* C8 witness: one leading key column with a range was extended under the
\* flag.
C8_Witness ==
    /\ Prepared
    /\ PrefixLen = 1
    /\ config.enable_short_key_for_one_column_filter
    /\ Len(key_ranges.key_ranges) = 2
    /\ key_ranges.key_ranges[1].begin_scan_range = << 1 >>

\* ---------------------------------------------------------------------------
\* The example: c0 IN (1, 2, 3) AND c1 BETWEEN 10 AND 20, c0 the sole key
\* column, at most 10 scan key rows
\* ---------------------------------------------------------------------------

\* c0 INT, c1 BIGINT
TupleE == << SlotDesc(0, "c0", "INT"), SlotDesc(1, "c1", "BIGINT") >>

E0 == SlotRef(0, "INT")
E1 == SlotRef(1, "BIGINT")

\* c1 BETWEEN 10 AND 20 reaches the scan as c1 >= 10 and c1 <= 20.
ExampleConjuncts ==
    { InPred(E0, {1, 2, 3}, FALSE, FALSE, FALSE),
      Bin("GE", E1, Lit("BIGINT", 10)),
      Bin("LE", E1, Lit("BIGINT", 20)) }

\* The three conjuncts in any order.
ExampleLists ==
    { exprs \in [1..3 -> ExampleConjuncts] : Range(exprs) = ExampleConjuncts }

InitExample ==
    \E exprs \in ExampleLists :
    \E unlimited, short_key, col_expr \in BOOLEAN :
        Constructed(Options(TupleE, << "c0" >>, unlimited, 10, col_expr, << >>),
                    Config(short_key), exprs)

SpecExample == InitExample /\ [][Next]_vars

\* One scan key row per value of c0, each holding c0 alone.
ExampleKeyRanges ==
    << OlapScanRange(<< 1 >>, << 1 >>, TRUE, TRUE),
       OlapScanRange(<< 2 >>, << 2 >>, TRUE, TRUE),
       OlapScanRange(<< 3 >>, << 3 >>, TRUE, TRUE) >>

\* The bound of c1 among the native filters.
ExampleBoundIsNativeFilter ==
    /\ TCondition("c1", ">=", << 10 >>, FALSE) \in Range(root_builder.olap_filters)
    /\ TCondition("c1", "<=", << 20 >>, FALSE) \in Range(root_builder.olap_filters)
    /\ \A i \in ConjunctIndexes : is_pred_normalized(root_builder, i)

\* C9 as stated: the example yields exactly three key ranges, one per value
\* of c0, and the bound of c1 is a native filter, not part of the key range.
C9_ExampleAsStated ==
    Completed =>
        /\ Prepared
        /\ key_ranges = [status |-> "OK", key_ranges |-> ExampleKeyRanges]
        /\ ExampleBoundIsNativeFilter

\* C9: the example yields exactly three key ranges, one per value of c0 and
\* holding c0 alone, when enable_short_key_for_one_column_filter is on; with
\* the flag off the sole key column is not extended and the key range is the
\* single default range.  Either way the bound of c1 is a native filter.
C9_Example ==
    Completed =>
        /\ Prepared
        /\ key_ranges.status = "OK"
        /\ key_ranges.key_ranges =
                IF config.enable_short_key_for_one_column_filter
                THEN ExampleKeyRanges ELSE << DefaultOlapScanRange >>
        /\ ExampleBoundIsNativeFilter

\* C9 witness: with the flag on, the example ended with the three key ranges
\* and the bound of c1 as native filter.
C9_Witness ==
    /\ Prepared
    /\ config.enable_short_key_for_one_column_filter
    /\ conjunct_ctxs[1].op = "FILTER_IN"
    /\ key_ranges.key_ranges = ExampleKeyRanges
    /\ ExampleBoundIsNativeFilter

\* ---------------------------------------------------------------------------
\* Runtime filters: the join build side publishes them while the scan is
\* prepared
\* ---------------------------------------------------------------------------

\* OlapScanConjunctsManager::unarrived_runtime_filters
unarrived_runtime_filters(b) == b.unarrived_rf

\* c0 INT, c1 INT
TupleR == << SlotDesc(0, "c0", "INT"), SlotDesc(1, "c1", "INT") >>

R0 == SlotRef(0, "INT")

\* An IN-list built from a join runtime filter: its opcode is FILTER_IN
\* whatever is_not_in says (the NOT IN step asserts that no predicate of
\* opcode FILTER_NOT_IN is tagged).
RuntimeInPred(l, values, null_in_set, is_not_in) ==
    [InPred(l, values, null_in_set, FALSE, TRUE) EXCEPT !.is_not_in = is_not_in]

\* The filters the join build side may publish.
NullFreeFilters == { JoinRuntimeFilter(FALSE, 1, 3), JoinRuntimeFilter(FALSE, 2, 2) }

NullBearingFilters == { JoinRuntimeFilter(TRUE, 2, 4) }

PublishedFilters == NullFreeFilters \cup NullBearingFilters

RuntimeFilterConjuncts ==
    { Bin("GE", R0, Lit("INT", 1)),
      RuntimeInPred(R0, {2, 3}, FALSE, FALSE),
      RuntimeInPred(R0, OversizedSet, FALSE, FALSE),
      RuntimeInPred(R0, {1}, FALSE, TRUE),
      RuntimeInPred(R0, {1, 2}, TRUE, FALSE),
      InPred(R0, OversizedSet, FALSE, FALSE, FALSE),
      Fn("is_null_pred", "BOOLEAN", << R0 >>) }

\* Two descriptors: the first probes c0, the second probes c0, c1 or an
\* expression that is no slot reference (-1); each filter is published or not
\* yet.
InitRF ==
    \E exprs \in SeqsUpTo(RuntimeFilterConjuncts, MaxConjuncts) :
    \E probe \in {0, 1, -1} :
    \E rf1, rf2 \in PublishedFilters \cup {NoFilter} :
        Constructed(Options(TupleR, << "c0" >>, FALSE, 2, FALSE,
                            << RuntimeFilterDesc(1, 0, rf1), RuntimeFilterDesc(2, probe, rf2) >>),
                    Config(TRUE), exprs)

\* The join build side publishes a filter not yet published: the write-once
\* store of RuntimeFilterProbeDescriptor::_runtime_filter that
\* desc->runtime_filter() reads.
PublishFilter ==
    /\ \E k \in 1..Len(opts.runtime_filters) :
       \E rf \in PublishedFilters :
            /\ ~opts.runtime_filters[k].rf.arrived
            /\ opts' = [opts EXCEPT !.runtime_filters[k].rf = rf]
    /\ UNCHANGED << chunk_predicate, limiter, config, conjunct_ctxs, root_builder, pc, const_result, parse_result,
                    key_ranges, not_push_down >>

NextRF ==
    \/ Next
    \/ PublishFilter

SpecRF == InitRF /\ [][NextRF]_vars

\* The slot of the tuple descriptor with the id.
SlotOfId(id) == opts.tuple_desc[slot_id_to_index(opts.tuple_desc, id)]

\* The descriptors whose probe is a slot of the tuple that has a range.
ProbingDescriptors ==
    { k \in 1..Len(opts.runtime_filters) :
        /\ slot_id_to_index(opts.tuple_desc, opts.runtime_filters[k].probe_slot_id) # 0
        /\ HasColumnRange(SlotOfId(opts.runtime_filters[k].probe_slot_id).type) }

\* The k-th descriptor was recorded as unarrived.
RecordedUnarrived(k) ==
    << opts.runtime_filters[k].filter_id, opts.runtime_filters[k].probe_slot_id >>
        \in Range(unarrived_runtime_filters(root_builder))

\* The column ranges of a normalization of the conjunct list under the
\* descriptors ds.
RangesUnder(ds) ==
    normalize_expressions(ChunkPredicateBuilder("AND", conjunct_ctxs, TRUE),
                          [opts EXCEPT !.runtime_filters = ds]).builder.column_value_ranges

\* The runtime-filter step of the slot at pc is taken and every published
\* filter probing the slot declares a NULL member.
NullBearingStep ==
    /\ pc.phase = "normalize"
    /\ NormalizeSteps[pc.step] = "join_runtime_filter"
    /\ pc' # pc
    /\ \A i \in ConjunctIndexes : ~conjunct_ctxs[i].is_rf
    /\ \A k \in 1..Len(opts.runtime_filters) :
        (opts.runtime_filters[k].probe_slot_id = opts.tuple_desc[pc.slot].id
            /\ opts.runtime_filters[k].rf.arrived) => opts.runtime_filters[k].rf.has_null

\* C11: a published runtime filter that declares a NULL member never changes
\* a column range.  The runtime-filter step of a slot whose published filters
\* all declare one (no conjunct being a runtime IN-list) leaves every
\* column's bound, fixed values and index-filter-only marker as they were
\* before the step, whatever the filters' minimum and maximum.
C11_NullBearingFilterIsNoOp ==
    [][NullBearingStep =>
            root_builder'.column_value_ranges = root_builder.column_value_ranges]_vars

\* C11 witness: a filter declaring a NULL member was published when c0 was
\* normalized, no other filter was, and c0's range is still the full domain.
C11_Witness ==
    /\ Prepared
    /\ opts.runtime_filters[1].rf.has_null
    /\ ~RecordedUnarrived(1)
    /\ opts.runtime_filters[2].probe_slot_id # 0
    /\ root_builder.column_value_ranges["c0"] = FullRange("c0", "INT")

\* The descriptors as the pass saw them: a descriptor recorded as unarrived
\* had no filter when it was polled.
DescriptorsAsPolled ==
    [k \in 1..Len(opts.runtime_filters) |->
        IF RecordedUnarrived(k)
        THEN [opts.runtime_filters[k] EXCEPT !.rf = NoFilter]
        ELSE opts.runtime_filters[k]]

\* The pairs (filter id, slot id) of the descriptors that probe a slot of
\* the tuple and have no filter.
UnpublishedPairs ==
    { << opts.runtime_filters[k].filter_id, opts.runtime_filters[k].probe_slot_id >> :
        k \in { j \in ProbingDescriptors : ~opts.runtime_filters[j].rf.arrived } }

\* What the pass holds once the slots are normalized: every descriptor
\* probing a slot whose filter is still unpublished is in the list
\* unarrived_runtime_filters returns, each recorded pair names a descriptor
\* probing a slot and is recorded once, and the column ranges are those of a
\* pass in which the recorded descriptors have no filter.
PolledOnce ==
    AfterNormalization =>
        /\ UnpublishedPairs \subseteq Range(unarrived_runtime_filters(root_builder))
        /\ \A i, j \in 1..Len(unarrived_runtime_filters(root_builder)) :
                unarrived_runtime_filters(root_builder)[i] = unarrived_runtime_filters(root_builder)[j]
                    => i = j
        /\ \A p \in Range(unarrived_runtime_filters(root_builder)) :
                \E k \in ProbingDescriptors :
                    p = << opts.runtime_filters[k].filter_id, opts.runtime_filters[k].probe_slot_id >>
        /\ root_builder.column_value_ranges = RangesUnder(DescriptorsAsPolled)

\* The conjuncts of the polling specification: a comparison and a runtime
\* IN-list on c0.
PollConjuncts == { Bin("GE", R0, Lit("INT", 1)), RuntimeInPred(R0, {2, 3}, FALSE, FALSE) }

\* At most one conjunct; each of the two descriptors has any published
\* filter or none, the second probes c0, c1 or no slot.
InitPoll ==
    \E exprs \in SeqsUpTo(PollConjuncts, 1) : \E probe \in {0, 1, -1} :
    \E rf1, rf2 \in PublishedFilters \cup {NoFilter} :
        Constructed(Options(TupleR, << "c0" >>, FALSE, 2, FALSE,
                            << RuntimeFilterDesc(1, 0, rf1), RuntimeFilterDesc(2, probe, rf2) >>),
                    Config(TRUE), exprs)

\* The steps of the pass are taken as long as one is enabled; nothing is
\* assumed about the publication of a filter.
SpecPoll == InitPoll /\ [][NextRF]_vars /\ WF_vars(Next)

\* C12: polling a runtime filter never blocks and loses no filter.  A
\* descriptor whose filter is unpublished when polled is recorded, with its
\* slot, in the list unarrived_runtime_filters returns and leaves the range
\* alone; a filter published after its poll alters nothing of the pass; and
\* the pass reaches its end whether or not any filter is ever published.
C12_PollNeverBlocksNorLoses == []PolledOnce /\ <>(pc.phase = "done")

\* C12 witness: the first descriptor's filter, free of NULL, was published
\* after c0 was polled; the descriptor is in the unarrived list and c0's
\* range is the full domain.
C12_Witness ==
    /\ Prepared
    /\ opts.runtime_filters[1].rf.arrived
    /\ ~opts.runtime_filters[1].rf.has_null
    /\ RecordedUnarrived(1)
    /\ root_builder.column_value_ranges["c0"] = FullRange("c0", "INT")

\* The i-th conjunct is an IN-list tagged as a join runtime filter whose
\* left operand is the k-th slot, bare or under a cast.
RuntimeInListOver(i, k) ==
    /\ conjunct_ctxs[i].node = "IN_PRED"
    /\ conjunct_ctxs[i].op = "FILTER_IN"
    /\ conjunct_ctxs[i].is_rf
    /\ LET l0 == conjunct_ctxs[i].children[1]
           l == IF l0.op = "CAST" THEN l0.children[1] ELSE l0
       IN  /\ is_slotref(l)
           /\ l.slot_id = opts.tuple_desc[k].id

\* A runtime IN-list that is not folded: a NOT-IN list, a list containing
\* NULL, or a list over max_pushdown_conditions_per_column.
UnfoldableRuntimeIn(e) ==
    /\ e.is_rf
    /\ \/ e.is_not_in
       \/ e.null_in_set
       \/ Cardinality(e.hash_set) > max_pushdown_conditions_per_column

\* The runtime-filter step of the k-th slot is still to come.
BeforeRuntimeFilterStep(k) ==
    /\ pc.phase = "normalize"
    /\ pc.slot < k \/ (pc.slot = k /\ NormalizeSteps[pc.step] = "join_runtime_filter")

\* The runtime-filter step of the k-th slot was taken.
PastRuntimeFilterStep(k) == AfterNormalization \/ (pc.phase = "normalize" /\ pc.slot > k)

FoldableConjuncts == SelectSeq(conjunct_ctxs, LAMBDA e : ~UnfoldableRuntimeIn(e))

\* The column ranges of a normalization of the conjuncts exprs under the
\* descriptors as the pass polled them.
RangesOf(exprs) ==
    normalize_expressions(ChunkPredicateBuilder("AND", exprs, TRUE),
                          [opts EXCEPT !.runtime_filters = DescriptorsAsPolled]).builder.column_value_ranges

\* C13: an IN-list conjunct tagged as a join runtime filter on a slot, its
\* left operand the slot bare or under a cast, is flagged normalized by the
\* slot's runtime-filter step, not before it, and is never among the
\* residual conjuncts; a runtime IN-list that is a NOT-IN, contains NULL or
\* exceeds max_pushdown_conditions_per_column is flagged all the same, but
\* the column ranges are those of the conjunct list without it.
C13_RuntimeInFlaggedByItsStep ==
    /\ \A i \in ConjunctIndexes : \A k \in 1..Len(opts.tuple_desc) :
            RuntimeInListOver(i, k) =>
                /\ BeforeRuntimeFilterStep(k) => ~root_builder.normalized_exprs[i]
                /\ PastRuntimeFilterStep(k) => root_builder.normalized_exprs[i]
                /\ conjunct_ctxs[i] \notin Range(not_push_down)
    /\ AfterNormalization => root_builder.column_value_ranges = RangesOf(FoldableConjuncts)

\* A filter free of NULL was published when the k-th slot was polled.
AppliedFilter(k) ==
    \E d \in 1..Len(opts.runtime_filters) :
        /\ opts.runtime_filters[d].probe_slot_id = opts.tuple_desc[k].id
        /\ opts.runtime_filters[d].rf.arrived
        /\ ~opts.runtime_filters[d].rf.has_null
        /\ ~RecordedUnarrived(d)

\* The i-th conjunct was folded into the range of the k-th slot: it is
\* flagged, refers to the slot alone, and is neither a null test (which goes
\* to the null-test conditions) nor a runtime IN-list that is not folded.
FoldedConjunct(i, k) ==
    /\ root_builder.normalized_exprs[i]
    /\ get_slot_ids(conjunct_ctxs[i]) = << opts.tuple_desc[k].id >>
    /\ ~IsNullTestOf(conjunct_ctxs[i], opts.tuple_desc[k])
    /\ ~UnfoldableRuntimeIn(conjunct_ctxs[i])

\* C14: the range of a slot's column is marked index-filter-only exactly
\* when a published filter free of NULL was applied to it and no static
\* predicate and no runtime IN-list was folded into it; the mark is set by
\* the slot's runtime-filter step, and a column that carries another
\* constraint is never marked.
C14_IndexFilterOnlyIffUntouched ==
    \A k \in 1..Len(opts.tuple_desc) :
        /\ BeforeRuntimeFilterStep(k) =>
                ~root_builder.column_value_ranges[opts.tuple_desc[k].col_name].index_filter_only
        /\ PastRuntimeFilterStep(k) =>
                (root_builder.column_value_ranges[opts.tuple_desc[k].col_name].index_filter_only
                    <=> (AppliedFilter(k) /\ \A i \in ConjunctIndexes : ~FoldedConjunct(i, k)))

\* C14 witness: c0 carries a null test and an unfolded runtime IN-list, two
\* filters free of NULL were applied to it, and its range is marked.
C14_Witness ==
    /\ Prepared
    /\ root_builder.column_value_ranges["c0"].index_filter_only
    /\ \E i, j \in ConjunctIndexes :
            /\ IsNullTestOf(conjunct_ctxs[i], opts.tuple_desc[1])
            /\ UnfoldableRuntimeIn(conjunct_ctxs[j])
    /\ \A d \in 1..Len(opts.runtime_filters) :
            /\ opts.runtime_filters[d].probe_slot_id = 0
            /\ opts.runtime_filters[d].rf.arrived
            /\ ~opts.runtime_filters[d].rf.has_null
            /\ ~RecordedUnarrived(d)

\* ---------------------------------------------------------------------------
\* DATE slots compared with DATETIME constants
\* ---------------------------------------------------------------------------

\* Tuple descriptor: c0 DATE, c1 INT.
TupleD == << SlotDesc(0, "c0", "DATE"), SlotDesc(1, "c1", "INT") >>

D0 == SlotRef(0, "DATE")

\* The DATE column cast to DATETIME, as it is compared with a timestamp.
CastD0 == Cast("DATETIME", D0)

DateTimeLit(day, time) == Lit("DATETIME", Timestamp(day, time))

\* Comparisons of c0 with the timestamps of day 2 at zero and nonzero time,
\* in both operand orders, a comparison with a date, and IN lists of
\* timestamps (all of nonzero time, mixed) and of dates.
DateConjuncts ==
    { Bin(op, CastD0, DateTimeLit(2, time)) : op \in {"GE", "LT", "GT", "LE", "EQ", "NE"}, time \in {0, 1} }
    \cup { Bin(op, DateTimeLit(2, 1), CastD0) : op \in {"GE", "LT", "GT", "LE", "EQ"} }
    \cup { Bin("GE", D0, Lit("DATE", 1)),
           InPred(CastD0, { Timestamp(1, 1), Timestamp(2, 1) }, FALSE, FALSE, FALSE),
           InPred(CastD0, { Timestamp(1, 0), Timestamp(2, 1) }, FALSE, FALSE, FALSE),
           InPred(D0, {1, 2}, FALSE, FALSE, FALSE) }

InitDate ==
    \E exprs \in SeqsUpTo(DateConjuncts, MaxConjuncts) :
    \E col_expr \in BOOLEAN :
        Constructed(Options(TupleD, << "c0" >>, FALSE, 2, col_expr, << >>),
                    Config(TRUE), exprs)

SpecDate == InitDate /\ [][Next]_vars

\* The value an operand of a comparison takes for the date d of the column:
\* a constant its value, the column cast to DATETIME the date at zero time,
\* the column itself the date.
OperandValue(x, d) ==
    IF x.node = "LITERAL" THEN x.col.val
    ELSE IF x.type = "DATETIME" THEN DateToTimestamp(d)
    ELSE d

\* Whether the comparison e, as written, holds for the date d of the column.
Accepts(e, d) ==
    LET a == OperandValue(e.children[1], d)
        b == OperandValue(e.children[2], d)
    IN CASE e.op = "LT" -> a < b
         [] e.op = "LE" -> a <= b
         [] e.op = "GT" -> a > b
         [] e.op = "GE" -> a >= b
         [] e.op = "EQ" -> a = b
         [] OTHER -> a # b

\* e compares c0 with a constant by <, <=, > or >=.
IsOrderComparison(e) == e.node = "BINARY_PRED" /\ e.op \in {"LT", "LE", "GT", "GE"}

\* The constant operand of a comparison.
ConstantOf(e) == IF e.children[1].node = "LITERAL" THEN e.children[1] ELSE e.children[2]

\* The operator of a comparison read with the column on the left.
ColumnFirstOp(e) ==
    IF e.children[1].node # "LITERAL" THEN e.op
    ELSE CASE e.op = "LT" -> "GT"
           [] e.op = "LE" -> "GE"
           [] e.op = "GT" -> "LT"
           [] e.op = "GE" -> "LE"
           [] OTHER -> e.op

\* The operator the claim gives for a comparison with a timestamp.
RewrittenOp(op, nonzero_time) ==
    CASE op = "GE" -> IF nonzero_time THEN "FILTER_LARGER" ELSE "FILTER_LARGER_OR_EQUAL"
      [] op = "LT" -> IF nonzero_time THEN "FILTER_LESS_OR_EQUAL" ELSE "FILTER_LESS"
      [] op = "GT" -> "FILTER_LARGER"
      [] OTHER -> "FILTER_LESS_OR_EQUAL"

HasNonzeroTime(ts) == ts % TimeUnits # 0

\* C15: a comparison of a DATE slot with a DATETIME constant is folded with
\* the constant truncated to its date; with a nonzero time >= becomes > and
\* < becomes <=, while > and <= keep their operator, and with zero time the
\* operator is unchanged.  The range folded from a list of such comparisons
\* contains exactly the dates every comparison of the list accepts.
C15_DateRewriteKeepsDates ==
    /\ \A i \in ConjunctIndexes :
            (IsOrderComparison(conjunct_ctxs[i]) /\ ConstantOf(conjunct_ctxs[i]).type = "DATETIME") =>
                /\ get_predicate_value(opts.tuple_desc[1], conjunct_ctxs[i], root_builder.undefined_read[i]).ok
                /\ get_predicate_value(opts.tuple_desc[1], conjunct_ctxs[i], root_builder.undefined_read[i]).value
                        = ConstantOf(conjunct_ctxs[i]).col.val \div TimeUnits
                /\ get_predicate_value(opts.tuple_desc[1], conjunct_ctxs[i], root_builder.undefined_read[i]).op
                        = RewrittenOp(ColumnFirstOp(conjunct_ctxs[i]),
                                      HasNonzeroTime(ConstantOf(conjunct_ctxs[i]).col.val))
    /\ (AfterNormalization /\ \A i \in ConjunctIndexes : IsOrderComparison(conjunct_ctxs[i])) =>
            /\ \A i \in ConjunctIndexes : root_builder.normalized_exprs[i]
            /\ \A d \in TypeMin("DATE")..TypeMax("DATE") :
                    RangeContains(root_builder.column_value_ranges["c0"], d)
                        <=> \A i \in ConjunctIndexes : Accepts(conjunct_ctxs[i], d)

\* C15 witness: c0 >= (day 2, nonzero time) was folded as c0 > day 2 next to
\* a second comparison, written with the constant first.
C15_Witness ==
    /\ Prepared
    /\ Len(conjunct_ctxs) = 2
    /\ conjunct_ctxs[1] = Bin("GE", CastD0, DateTimeLit(2, 1))
    /\ conjunct_ctxs[2] = Bin("LT", DateTimeLit(2, 1), CastD0)
    /\ root_builder.column_value_ranges["c0"].low_value = 2
    /\ root_builder.column_value_ranges["c0"].low_op = "FILTER_LARGER"

\* DATE_COL = '2020-01-01 01:00:00': c0 equal to a timestamp of nonzero time.
ExampleEquality == Bin("EQ", CastD0, DateTimeLit(2, 1))

\* DATE_COL > '2020-01-01'
ExampleLarger == Bin("GT", D0, Lit("DATE", 2))

\* e is an equality of c0 with a timestamp of nonzero time, in either
\* operand order.
LossyEquality(e) ==
    /\ e.node = "BINARY_PRED"
    /\ e.op = "EQ"
    /\ ConstantOf(e).type = "DATETIME"
    /\ HasNonzeroTime(ConstantOf(e).col.val)

\* The conjunct list with every conjunct equal to e replaced by f.
Replacing(e, f) == [i \in ConjunctIndexes |-> IF conjunct_ctxs[i] = e THEN f ELSE conjunct_ctxs[i]]

\* The slots are being normalized or have just been.
ThroughNormalization == pc.phase \in {"normalize", "build_olap_filters"}

\* C16 as stated: once the slots are normalized, the example equality is
\* flagged and the column ranges are those of the list in which it reads
\* DATE_COL > '2020-01-01'.
C16_EqualityAsStated ==
    (AfterNormalization /\ ExampleEquality \in Range(conjunct_ctxs)) =>
        /\ \A i \in ConjunctIndexes :
                conjunct_ctxs[i] = ExampleEquality => root_builder.normalized_exprs[i]
        /\ root_builder.column_value_ranges = RangesOf(Replacing(ExampleEquality, ExampleLarger))

\* C16: an equality of a DATE column with a DATETIME constant of nonzero time
\* is not rewritten to a comparison and not folded: through the
\* normalization of the slots it is never flagged, the column ranges are
\* those of the conjunct list without it, and after a successful
\* preparation without column-expression pushdown it is among the conjuncts
\* that were not pushed down.
C16_LossyEqualityNotFolded ==
    /\ \A i \in ConjunctIndexes :
            LossyEquality(conjunct_ctxs[i]) =>
                /\ ThroughNormalization => ~root_builder.normalized_exprs[i]
                /\ (Prepared /\ ~opts.enable_column_expr_predicate) =>
                        /\ ~root_builder.normalized_exprs[i]
                        /\ conjunct_ctxs[i] \in Range(not_push_down)
    /\ AfterNormalization =>
            root_builder.column_value_ranges
                = RangesOf(SelectSeq(conjunct_ctxs, LAMBDA e : ~LossyEquality(e)))

\* C16 witness: the example equality went through a preparation next to
\* c0 >= the same timestamp; the range is c0 > day 2 and the equality was
\* not pushed down.
C16_Witness ==
    /\ Prepared
    /\ ~opts.enable_column_expr_predicate
    /\ conjunct_ctxs = << ExampleEquality, Bin("GE", CastD0, DateTimeLit(2, 1)) >>
    /\ not_push_down = << ExampleEquality >>
    /\ root_builder.column_value_ranges["c0"].low_value = 2
    /\ root_builder.column_value_ranges["c0"].low_op = "FILTER_LARGER"
    /\ root_builder.column_value_ranges["c0"].fixed_values = {}

\* e is an IN list of timestamps on c0, within the cap and free of NULL, all
\* of whose members have a nonzero time.
LossyInList(e) ==
    /\ e.node = "IN_PRED"
    /\ e.op = "FILTER_IN"
    /\ e.children[1] = CastD0
    /\ ~e.is_rf /\ ~e.is_not_in /\ ~e.null_in_set
    /\ Cardinality(e.hash_set) <= max_pushdown_conditions_per_column
    /\ e.hash_set # {}
    /\ \A ts \in e.hash_set : HasNonzeroTime(ts)

\* C17: when the truncation of timestamps to dates makes an equality or an
\* IN list on a DATE column unsatisfiable (an equality with a timestamp of
\* nonzero time, an IN list whose timestamps all have a nonzero time), the
\* preparation ends with parse_conjuncts returning EndOfFile and the
\* predicate is not left residual.
C17_LossyEqualityEndsScan ==
    (/\ pc.phase = "done"
     /\ const_result = [ret |-> "OK", status |-> "OK"]
     /\ \E i \in ConjunctIndexes :
            LossyEquality(conjunct_ctxs[i]) \/ LossyInList(conjunct_ctxs[i]))
        => /\ parse_result.status = "EndOfFile"
           /\ not_push_down = << >>

\* ---------------------------------------------------------------------------
\* Decimal constants
\* ---------------------------------------------------------------------------

\* A slot of type DECIMAL64 with the precision.
DecimalSlotDesc(id, col_name, precision) ==
    [SlotDesc(id, col_name, "DECIMAL64") EXCEPT !.precision = precision]

\* Tuple descriptor: c0 DECIMAL64 of precision 1, c1 INT.
TupleP == << DecimalSlotDesc(0, "c0", 1), SlotDesc(1, "c1", "INT") >>

P0 == [SlotRef(0, "DECIMAL64") EXCEPT !.precision = 1]

\* A constant of the column's type, DECIMAL64 of precision 1, whose
\* evaluation yields the unscaled value v.
DecimalLit(v) == [Lit("DECIMAL64", v) EXCEPT !.precision = 1]

\* A constant of type DECIMAL64 of precision 2, wider than the column's.
WideDecimalLit(v) == [Lit("DECIMAL64", v) EXCEPT !.precision = 2]

\* Comparisons of c0 with constants of the column's type within the
\* precision (3, 9) and overflowing it (10, 12, -10), one with the constant
\* first, and with constants of the wider type: 12 and -10, which overflow
\* the column's precision but not their own, and 100, which overflows both.
DecimalConjuncts ==
    { Bin(op, P0, DecimalLit(v)) : op \in {"GE", "LE", "EQ"}, v \in {3, 9, 10, 12, -10} }
    \cup { Bin("LT", DecimalLit(3), P0), Bin("LT", DecimalLit(10), P0) }
    \cup { Bin("LE", P0, WideDecimalLit(12)), Bin("GE", P0, WideDecimalLit(-10)),
           Bin("LE", P0, WideDecimalLit(100)) }

InitDecimal ==
    \E exprs \in SeqsUpTo(DecimalConjuncts, MaxConjuncts) :
    \E col_expr \in BOOLEAN :
        Constructed(Options(TupleP, << "c0" >>, FALSE, 2, col_expr, << >>),
                    Config(TRUE), exprs)

SpecDecimal == InitDecimal /\ [][Next]_vars

\* The constant of the comparison has more digits than the precision the
\* column declares.
OverflowsColumn(e) ==
    \/ ConstantOf(e).col.val >= get_scale_factor(opts.tuple_desc[1].precision)
    \/ ConstantOf(e).col.val <= -get_scale_factor(opts.tuple_desc[1].precision)

\* The constant of the comparison has more digits than the precision its
\* own type declares.
OverflowsOwnType(e) ==
    \/ ConstantOf(e).col.val >= get_scale_factor(ConstantOf(e).precision)
    \/ ConstantOf(e).col.val <= -get_scale_factor(ConstantOf(e).precision)

\* The comparisons that Overflows holds of are rejected and left residual:
\* never flagged by the normalization of the slots, the column ranges those
\* of the list without them, and neither an error nor the no-rows signal
\* comes of them; every other comparison is folded, the range containing
\* exactly the values every such comparison accepts.
OverflowingLeftResidual(Overflows(_)) ==
    /\ \A i \in ConjunctIndexes :
            /\ (Overflows(conjunct_ctxs[i]) /\ ThroughNormalization)
                    => ~root_builder.normalized_exprs[i]
            /\ (Overflows(conjunct_ctxs[i]) /\ Prepared /\ ~opts.enable_column_expr_predicate)
                    => /\ ~root_builder.normalized_exprs[i]
                       /\ conjunct_ctxs[i] \in Range(not_push_down)
            /\ (~Overflows(conjunct_ctxs[i]) /\ AfterNormalization)
                    => root_builder.normalized_exprs[i]
    /\ AfterNormalization =>
            /\ root_builder.column_value_ranges
                    = RangesOf(SelectSeq(conjunct_ctxs, LAMBDA e : ~Overflows(e)))
            /\ \A d \in TypeMin("DECIMAL64")..TypeMax("DECIMAL64") :
                    RangeContains(root_builder.column_value_ranges["c0"], d)
                        <=> \A i \in ConjunctIndexes :
                                Overflows(conjunct_ctxs[i]) \/ Accepts(conjunct_ctxs[i], d)
    /\ (pc.phase = "done" /\ \A i \in ConjunctIndexes : Overflows(conjunct_ctxs[i]))
            => (const_result = [ret |-> "OK", status |-> "OK"] /\ parse_result.status = "OK")

TupleO == << SlotDesc(0, "c0", "INT"), SlotDesc(1, "c1", "INT") >>

O0 == SlotRef(0, "INT")
O1 == SlotRef(1, "INT")

\* Comparisons with the constant first (2 op c0) and with the slot first,
\* a comparison of two slots, comparisons of abs(c0) in both orders, a
\* comparison of c1 with the constant first, and an IN list.
OrderConjuncts ==
    { Bin(op, Lit("INT", 2), O0) : op \in {"LT", "LE", "GT", "GE", "EQ", "NE"} }
    \cup { Bin("LT", O0, Lit("INT", 3)), Bin("GE", O0, Lit("INT", 1)),
           Bin("LT", O0, O1),
           Bin("LT", Fn("abs", "INT", << O0 >>), Lit("INT", 2)),
           Bin("LT", Lit("INT", 2), Fn("abs", "INT", << O0 >>)),
           Bin("LT", Lit("INT", 1), O1),
           InPred(O0, {1, 2}, FALSE, FALSE, FALSE) }

InitOrder ==
    \E exprs \in SeqsUpTo(OrderConjuncts, MaxConjuncts) :
    \E col_expr \in BOOLEAN :
        Constructed(Options(TupleO, << "c0" >>, FALSE, 2, col_expr, << >>),
                    Config(TRUE), exprs)

SpecOrder == InitOrder /\ [][Next]_vars

\* e compares a reference to exactly the k-th slot with a constant, in
\* either operand order.
ComparisonOn(e, k) ==
    /\ e.node = "BINARY_PRED"
    /\ \E side \in {1, 2} :
            /\ e.children[side].node = "LITERAL"
            /\ e.children[3 - side] = SlotRef(opts.tuple_desc[k].id, opts.tuple_desc[k].type)

\* The native operator of a comparison operator.
FilterOpOf(op) ==
    CASE op = "LT" -> "FILTER_LESS"
      [] op = "LE" -> "FILTER_LESS_OR_EQUAL"
      [] op = "GT" -> "FILTER_LARGER"
      [] op = "GE" -> "FILTER_LARGER_OR_EQUAL"
      [] op = "EQ" -> "FILTER_IN"
      [] OTHER -> "FILTER_NOT_IN"

\* Whether the conjunct e, as written, holds for the value d of its slot.
AcceptsValue(e, d) == IF e.node = "IN_PRED" THEN d \in e.hash_set ELSE Accepts(e, d)

\* The slots were just normalized: build_olap_filters is the next step.
JustNormalized == pc.phase = "build_olap_filters"

\* C19: the operand order of a comparison is normalized before folding.
\* With the constant on the left, <, <=, > and >= are reversed while = and
\* <> keep their operator; a comparison in which no operand is a constant or
\* the other operand is not a reference to exactly the slot is not folded.
\* The range of a slot contains exactly the values that every conjunct
\* folded into it, read as written, accepts.
C19_OperandOrderNormalized ==
    \A k \in 1..Len(opts.tuple_desc) :
        /\ \A i \in ConjunctIndexes :
            /\ ComparisonOn(conjunct_ctxs[i], k) =>
                    /\ get_predicate_value(opts.tuple_desc[k], conjunct_ctxs[i], root_builder.undefined_read[i]).ok
                    /\ get_predicate_value(opts.tuple_desc[k], conjunct_ctxs[i], root_builder.undefined_read[i]).value
                            = ConstantOf(conjunct_ctxs[i]).col.val
                    /\ get_predicate_value(opts.tuple_desc[k], conjunct_ctxs[i], root_builder.undefined_read[i]).op
                            = FilterOpOf(ColumnFirstOp(conjunct_ctxs[i]))
                    /\ (JustNormalized /\ conjunct_ctxs[i].op # "NE")
                            => root_builder.normalized_exprs[i]
            /\ (conjunct_ctxs[i].node = "BINARY_PRED" /\ ~ComparisonOn(conjunct_ctxs[i], k)) =>
                    ~get_predicate_value(opts.tuple_desc[k], conjunct_ctxs[i], root_builder.undefined_read[i]).ok
            /\ (/\ conjunct_ctxs[i].node = "BINARY_PRED"
                /\ ThroughNormalization
                /\ \A j \in 1..Len(opts.tuple_desc) : ~ComparisonOn(conjunct_ctxs[i], j))
                    => ~root_builder.normalized_exprs[i]
        /\ JustNormalized =>
                \A d \in TypeMin("INT")..TypeMax("INT") :
                    RangeContains(root_builder.column_value_ranges[opts.tuple_desc[k].col_name], d)
                        <=> \A i \in ConjunctIndexes :
                                (/\ root_builder.normalized_exprs[i]
                                 /\ get_slot_ids(conjunct_ctxs[i]) = << opts.tuple_desc[k].id >>)
                                    => AcceptsValue(conjunct_ctxs[i], d)

\* C19 witness: 2 < c0 was folded as c0 > 2, next to a comparison of two
\* slots that was not pushed down.
C19_Witness ==
    /\ Prepared
    /\ ~opts.enable_column_expr_predicate
    /\ conjunct_ctxs = << Bin("LT", Lit("INT", 2), O0), Bin("LT", O0, O1) >>
    /\ root_builder.column_value_ranges["c0"].low_value = 2
    /\ root_builder.column_value_ranges["c0"].low_op = "FILTER_LARGER"
    /\ not_push_down = << Bin("LT", O0, O1) >>

\* ---------------------------------------------------------------------------
\* The residual conjuncts
\* ---------------------------------------------------------------------------

\* The indexes of the conjuncts whose flag is false.
UnflaggedIndexes == { i \in ConjunctIndexes : ~root_builder.normalized_exprs[i] }

\* The n-th index, in list order, of a conjunct whose flag is false.
NthUnflagged(n) ==
    CHOOSE i \in UnflaggedIndexes : Cardinality({ j \in UnflaggedIndexes : j < i }) = n - 1

\* C20: get_not_push_down_conjuncts returns exactly the original conjuncts
\* whose normalized flag is false, each once and in the order of the list;
\* every conjunct has a flag, so each is either flagged as pushed or returned
\* as residual, never both and never neither.  Nothing is returned before
\* the call.
C20_ResidualIsUnflagged ==
    /\ Len(root_builder.normalized_exprs) = Len(conjunct_ctxs)
    /\ ~Prepared => not_push_down = << >>
    /\ Prepared =>
        /\ Len(not_push_down) = Cardinality(UnflaggedIndexes)
        /\ \A n \in 1..Len(not_push_down) : not_push_down[n] = conjunct_ctxs[NthUnflagged(n)]
        /\ Len(not_push_down) + Cardinality({ i \in ConjunctIndexes : root_builder.normalized_exprs[i] })
                = Len(conjunct_ctxs)

\* C20 witness: of two different conjuncts the first was pushed and the
\* second is the only one returned.
C20_Witness ==
    /\ Prepared
    /\ root_builder.normalized_exprs = << TRUE, FALSE >>
    /\ conjunct_ctxs[1] # conjunct_ctxs[2]
    /\ not_push_down = << conjunct_ctxs[2] >>

\* ---------------------------------------------------------------------------
\* Growth of the conjunct list after construction
\* ---------------------------------------------------------------------------

\* The most conjuncts a join operator pushes down after construction.
MaxAppended == 2

\* The conjuncts of the lists the manager is constructed over.
GrowConjuncts ==
    { Bin("EQ", A0, Lit("INT", 1)),
      Bin("GE", A0, Lit("INT", 2)),
      InPred(A0, OversizedSet, FALSE, FALSE, FALSE),
      AbsExpr,
      TwoSlotExpr,
      Or(<< Bin("EQ", A0, Lit("INT", 1)), Bin("EQ", A0, Lit("INT", 2)) >>),
      Or(<< Bin("EQ", A0, Lit("INT", 1)), TwoSlotExpr >>) }

\* The conjuncts a join operator pushes down: one that is also in the lists
\* of construction and would be folded, one that is new, one never pushed.
PushedDownConjuncts ==
    { Bin("EQ", A0, Lit("INT", 1)), Bin("LE", A0, Lit("INT", 3)), TwoSlotExpr }

InitGrow ==
    \E exprs \in SeqsUpTo(GrowConjuncts, MaxConjuncts) :
    \E col_expr \in BOOLEAN :
        Constructed(Options(TupleA, << "c0" >>, FALSE, 2, col_expr, << >>),
                    Config(TRUE), exprs)

\* A join operator pushes a predicate down to the scan node: the list behind
\* conjunct_ctxs_ptr grows at its end, the builder and its flag array are
\* not told.  The list is not read again after the residual conjuncts were
\* taken.
AppendConjunct ==
    /\ pc.phase # "done"
    /\ Len(conjunct_ctxs) < Len(root_builder.exprs) + MaxAppended
    /\ \E e \in PushedDownConjuncts : conjunct_ctxs' = Append(conjunct_ctxs, e)
    /\ UNCHANGED << chunk_predicate, limiter, opts, config, root_builder, pc, const_result, parse_result, key_ranges,
                    not_push_down >>

NextGrow ==
    \/ Next
    \/ AppendConjunct

SpecGrow == InitGrow /\ [][NextGrow]_vars

\* The number of conjuncts the manager was constructed over.
ConstructedLen == Len(root_builder.exprs)

\* The indexes of the conjuncts appended since.
AppendedIndexes == (ConstructedLen + 1)..Len(conjunct_ctxs)

\* The indexes of the conjuncts of construction whose flag is false.
UnflaggedOriginals == { i \in 1..ConstructedLen : ~root_builder.normalized_exprs[i] }

\* The n-th of them in list order.
NthUnflaggedOriginal(n) ==
    CHOOSE i \in UnflaggedOriginals : Cardinality({ j \in UnflaggedOriginals : j < i }) = n - 1

\* C21: when the conjunct list grows at its end after the manager was
\* constructed, the flag array keeps the size of construction and flag i
\* still belongs to conjunct i of the list; an appended conjunct has no flag,
\* is_pred_normalized answers false for it without reading the array, and
\* get_not_push_down_conjuncts returns the unflagged conjuncts of
\* construction followed by every appended conjunct, also one equal to a
\* conjunct that was pushed.
C21_GrowthKeepsFlags ==
    /\ Len(root_builder.normalized_exprs) = ConstructedLen
    /\ Len(conjunct_ctxs) >= ConstructedLen
    /\ \A i \in 1..ConstructedLen : conjunct_ctxs[i] = root_builder.exprs[i]
    /\ \A i \in AppendedIndexes : ~is_pred_normalized(root_builder, i)
    /\ Prepared =>
        /\ Len(not_push_down) = Cardinality(UnflaggedOriginals) + Cardinality(AppendedIndexes)
        /\ \A n \in 1..Cardinality(UnflaggedOriginals) :
                not_push_down[n] = conjunct_ctxs[NthUnflaggedOriginal(n)]
        /\ \A k \in 1..Cardinality(AppendedIndexes) :
                not_push_down[Cardinality(UnflaggedOriginals) + k] = conjunct_ctxs[ConstructedLen + k]

\* C21 witness: the manager was constructed over c0 = 1 alone, which was
\* pushed; the same predicate and a new one were appended during the
\* preparation and both are returned, the flagged one is not.
C21_Witness ==
    /\ Prepared
    /\ root_builder.exprs = << Bin("EQ", A0, Lit("INT", 1)) >>
    /\ root_builder.normalized_exprs = << TRUE >>
    /\ conjunct_ctxs = << Bin("EQ", A0, Lit("INT", 1)), Bin("EQ", A0, Lit("INT", 1)),
                          Bin("LE", A0, Lit("INT", 3)) >>
    /\ not_push_down = << Bin("EQ", A0, Lit("INT", 1)), Bin("LE", A0, Lit("INT", 3)) >>

\* ---------------------------------------------------------------------------
\* The order of the conjunct list
\* ---------------------------------------------------------------------------

\* Conjuncts on c0 of the steps of normalize_predicate that fold into the
\* range, with bounds that meet, touch and cross, and a conjunct only
\* column-expression pushdown takes.
PermConjuncts ==
    { InPred(A0, {1, 2}, FALSE, FALSE, FALSE),
      Bin("GE", A0, Lit("INT", 2)),
      Bin("GT", A0, Lit("INT", 2)),
      Bin("LE", A0, Lit("INT", 2)),
      Bin("NE", A0, Lit("INT", 2)),
      InPred(A0, {1}, FALSE, TRUE, FALSE),
      AbsExpr }

\* Lists of up to MaxConjuncts + 1 conjuncts, so that a list has an order of
\* three conjuncts on one column.
InitPerm ==
    \E exprs \in SeqsUpTo(PermConjuncts, MaxConjuncts + 1) :
    \E col_expr \in BOOLEAN :
        Constructed(Options(TupleA, << "c0" >>, FALSE, 2, col_expr, << >>),
                    Config(TRUE), exprs)

SpecPerm == InitPerm /\ [][Next]_vars

\* The permutations of 1..n.
OrdersOf(n) == { p \in [1..n -> 1..n] : \A i, j \in 1..n : i # j => p[i] # p[j] }

\* The conjunct list in the order p.
Permuted(p) == [i \in 1..Len(conjunct_ctxs) |-> conjunct_ctxs[p[i]]]

\* What parse_conjuncts returns for the conjunct list in the order p.
ParsedInOrder(p) == parse_conjuncts(ChunkPredicateBuilder("AND", Permuted(p), TRUE), opts, config)

\* The final range of a column as the claim compares it: whether the column
\* has one, whether it is empty and, when it is not, its fixed-value set and
\* its bound.  An empty range stands for no value whatever bound it is left
\* with.
FinalRange(range) ==
    IF ~range.present \/ is_empty_value_range(range)
    THEN [present |-> range.present, empty |-> range.present,
          fixed_values |-> {},
          low_value |-> 0, low_op |-> "", high_value |-> 0, high_op |-> ""]
    ELSE [present |-> TRUE, empty |-> FALSE,
          fixed_values |-> range.fixed_values,
          low_value |-> range.low_value, low_op |-> range.low_op,
          high_value |-> range.high_value, high_op |-> range.high_op]

\* parse_conjuncts has returned.
Parsed == parse_result.status # "none"

\* The outcome for the order p is that of the list as given: same status,
\* same final range per column, same conjuncts flagged.
SameOutcome(res, p) ==
    /\ res.status = parse_result.status
    /\ \A c \in ColNameSet :
            FinalRange(res.builder.column_value_ranges[c])
                = FinalRange(root_builder.column_value_ranges[c])
    /\ \A i \in ConjunctIndexes :
            res.builder.normalized_exprs[i] = root_builder.normalized_exprs[p[i]]

\* C22: normalization does not depend on the order of the conjunct list.
\* For every permutation of the list parse_conjuncts returns the same
\* status, leaves every column with the same final range (the same
\* emptiness and, when not empty, the same fixed-value set and bound) and
\* flags the same conjuncts.
C22_OrderIndependent ==
    Parsed => \A p \in OrdersOf(Len(conjunct_ctxs)) : SameOutcome(ParsedInOrder(p), p)

\* C22 witness: three different conjuncts on c0 of three different steps,
\* given with the NOT IN first and the IN list last, were all folded: an
\* order in which a single pass over the list would have refused the NOT IN.
C22_Witness ==
    /\ Prepared
    /\ conjunct_ctxs = << InPred(A0, {1}, FALSE, TRUE, FALSE),
                          Bin("GE", A0, Lit("INT", 2)),
                          InPred(A0, {1, 2}, FALSE, FALSE, FALSE) >>
    /\ root_builder.normalized_exprs = << TRUE, TRUE, TRUE >>
    /\ root_builder.column_value_ranges["c0"].fixed_values = {2}

\* ---------------------------------------------------------------------------
\* The predicate tree and the native predicate parser
\* ---------------------------------------------------------------------------

\* Conjuncts that end as a native filter condition, as a null-test
\* condition, as column-expression predicates of the root and of nested
\* builders, and as residual.
ChunkConjuncts ==
    { Bin("GE", A0, Lit("INT", 1)),
      Fn("is_null_pred", "BOOLEAN", << A0 >>),
      AbsExpr,
      Bin("EQ", A1, Lit("DOUBLE", 1)),
      Or(<< Bin("EQ", A0, Lit("INT", 1)), Bin("EQ", A0, Lit("INT", 2)) >>),
      Or(<< And(<< Bin("GE", A0, Lit("INT", 1)), AbsExpr >>), Bin("EQ", A0, Lit("INT", 3)) >>),
      TwoSlotExpr }

InitChunk ==
    \E exprs \in SeqsUpTo(ChunkConjuncts, MaxConjuncts) :
    \E col_expr \in BOOLEAN :
        Constructed(Options(TupleA, << "c0" >>, FALSE, 2, col_expr, << >>),
                    Config(TRUE), exprs)

RECURSIVE PushedConditions(_)
\* Every condition pushed in the builder tree of b.
PushedConditions(b) ==
    { Pushed("filter", b.olap_filters[k]) : k \in 1..Len(b.olap_filters) }
        \cup { Pushed("is_null", b.is_null_vector[k]) : k \in 1..Len(b.is_null_vector) }
        \cup { Pushed("expr", b.slot_index_to_expr_ctxs[k][2]) :
                    k \in 1..Len(b.slot_index_to_expr_ctxs) }
        \cup UNION { PushedConditions(b.child_builders[k]) : k \in 1..Len(b.child_builders) }

\* What get_chunk_predicate returned, with the parser it was given.
Returned(res, parser) == [status |-> res.status, pred |-> res.pred, parser |-> parser]

\* OlapScanConjunctsManager::get_chunk_predicate(parser), called once after
\* a successful parse_conjuncts with a parser that rejects any of the pushed
\* conditions.
GetChunkPredicate ==
    /\ pc.phase \in {"get_key_ranges", "get_not_push_down", "done"}
    /\ parse_result.status = "OK"
    /\ chunk_predicate.status = "none"
    /\ \E rejected \in SUBSET PushedConditions(root_builder) :
       \E fails \in BOOLEAN :
            chunk_predicate' =
                Returned(get_chunk_predicate(root_builder, opts, PredicateParser(rejected, fails)),
                         PredicateParser(rejected, fails))
    /\ UNCHANGED << limiter, opts, config, conjunct_ctxs, root_builder, pc, const_result,
                    parse_result, key_ranges, not_push_down >>

NextChunk ==
    \/ Next
    \/ GetChunkPredicate

SpecChunk == InitChunk /\ [][NextChunk]_vars

RECURSIVE Leaves(_)
\* The pushed conditions the column predicates of a predicate tree stand for.
Leaves(pred) ==
    IF pred.node = "column" THEN { pred.source }
    ELSE UNION { Leaves(pred.children[k]) : k \in 1..Len(pred.children) }

\* The pushed conditions of the builder tree the parser rejects.
RejectedConditions == PushedConditions(root_builder) \cap chunk_predicate.parser.rejected

\* C23: when the parser rejects a pushed condition anywhere in the builder
\* tree (a native filter condition, a null-test condition, a
\* column-expression predicate, of the root or of a nested builder),
\* get_chunk_predicate returns an error and no predicate tree; a tree it
\* returns has a column predicate for every pushed condition.
C23_RejectionIsHardError ==
    chunk_predicate.status # "none" =>
        /\ RejectedConditions # {} =>
                /\ chunk_predicate.status \in {"RuntimeError", "InternalError"}
                /\ chunk_predicate.pred = NoPredicate
        /\ chunk_predicate.status = "OK" =>
                /\ chunk_predicate.pred.node = "AND"
                /\ Leaves(chunk_predicate.pred) = PushedConditions(root_builder)

\* C23 witness: the root has conditions of its own, all accepted, and a
\* nested builder one of whose column-expression predicates is rejected;
\* the call returned an error and no tree.
C23_Witness ==
    /\ chunk_predicate.status = "RuntimeError"
    /\ chunk_predicate.pred = NoPredicate
    /\ root_builder.olap_filters # << >>
    /\ root_builder.child_builders # << >>
    /\ Cardinality(RejectedConditions) = 1
    /\ RejectedConditions \subseteq PushedConditions(root_builder.child_builders[1])
    /\ \A k \in 1..Len(root_builder.olap_filters) :
            Pushed("filter", root_builder.olap_filters[k]) \notin RejectedConditions

\* ---------------------------------------------------------------------------
\* Admission to the chunk buffer
\* ---------------------------------------------------------------------------

\* A limiter of any default capacity up to _max_capacity, nothing pinned;
\* the scan it belongs to has no conjunct.
InitLimiter ==
    /\ \E default_capacity \in 1..MaxCapacity :
            limiter = DynamicChunkBufferLimiter(MaxCapacity, default_capacity, MaxCapacity + 1)
    /\ opts = Options(TupleA, << "c0" >>, FALSE, 2, FALSE, << >>)
    /\ config = Config(TRUE)
    /\ conjunct_ctxs = << >>
    /\ root_builder = ChunkPredicateBuilder("AND", << >>, TRUE)
    /\ pc = Pc("eval_const", 0, 0)
    /\ const_result = [ret |-> "none", status |-> "none"]
    /\ parse_result = [status |-> "none", value |-> FALSE]
    /\ key_ranges = [status |-> "none", key_ranges |-> << >>]
    /\ not_push_down = << >>
    /\ chunk_predicate = [status |-> "none", pred |-> NoPredicate, parser |-> PredicateParser({}, FALSE)]

\* The variables of the scan preparation.
scan_vars ==
    << opts, config, conjunct_ctxs, root_builder, pc, const_result, parse_result, key_ranges,
       not_push_down, chunk_predicate >>

\* pin(num_chunks), first step: the atomic increment.
PinFetchAdd(t) ==
    /\ limiter.threads[t].pc = "idle"
    /\ \E num_chunks \in 1..MaxPin : limiter' = pin_fetch_add(limiter, t, num_chunks)
    /\ UNCHANGED scan_vars

\* pin, second step: the comparison with _capacity.
PinCheck(t) ==
    /\ limiter.threads[t].pc = "check"
    /\ limiter' = pin_check(limiter, t)
    /\ UNCHANGED scan_vars

\* pin, last step of a failed call: _unpin and return nullptr.
PinUnpin(t) ==
    /\ limiter.threads[t].pc = "unpin"
    /\ limiter' = pin_unpin(limiter, t)
    /\ UNCHANGED scan_vars

\* A live token is released.
ReleaseToken ==
    /\ \E num_chunks \in 1..MaxPin :
        /\ limiter.tokens[num_chunks] > 0
        /\ limiter' = release_token(limiter, num_chunks)
    /\ UNCHANGED scan_vars

\* update_avg_row_bytes, under _mutex, told of at most one row, of no byte or
\* of two, the chunks having one or two rows; the rows told of in all are
\* capped.
UpdateAvgRowBytes ==
    /\ \E added_num_rows \in 0..1 :
       \E added_sum_row_bytes \in {0, 2 * added_num_rows} :
       \E max_chunk_rows \in 1..2 :
        /\ limiter.num_rows + added_num_rows <= MaxRows
        /\ limiter' = update_avg_row_bytes(limiter, added_sum_row_bytes, added_num_rows,
                                           max_chunk_rows)
    /\ UNCHANGED scan_vars

NextPin ==
    \/ \E t \in Threads : PinFetchAdd(t)
    \/ \E t \in Threads : PinCheck(t)
    \/ \E t \in Threads : PinUnpin(t)
    \/ ReleaseToken

NextLimiter ==
    \/ NextPin
    \/ UpdateAvgRowBytes

\* The limiter constructed with its default capacity equal to _max_capacity.
InitLimiterDefault == InitLimiter /\ limiter.capacity = MaxCapacity

\* Concurrent pins and releases while the capacity is being adapted.
SpecLimiter == InitLimiterDefault /\ [][NextLimiter]_vars

\* Concurrent pins and releases with a fixed capacity.
SpecLimiterFixed == InitLimiter /\ [][NextPin]_vars

RECURSIVE SumOf(_, _)
\* The sum of f[x] over the set S.
SumOf(f, S) ==
    IF S = {} THEN 0
    ELSE LET x == CHOOSE y \in S : TRUE IN f[x] + SumOf(f, S \ {x})

\* The chunks held by live tokens.
HeldChunks == SumOf([n \in 1..MaxPin |-> n * limiter.tokens[n]], 1..MaxPin)

\* The threads inside pin, after the increment.
InPin == { t \in Threads : limiter.threads[t].pc # "idle" }

\* The chunks added by calls of pin that have not returned yet.
InFlightChunks == SumOf([t \in Threads |-> limiter.threads[t].num_chunks], InPin)

\* C24: pin is a non-blocking bounded increment.  The next step of a thread
\* inside pin, and the first step of a thread outside, is always enabled;
\* the call returns no token exactly when the counter value its increment
\* read, plus its request, exceeds the capacity, and a failed call has
\* undone its increment: the counter always equals the chunks held by live
\* tokens plus the requests of the calls still inside pin, so with no call
\* inside pin it equals the chunks held.
C24_PinIsBoundedIncrement ==
    /\ limiter.pinned_chunks_counter = HeldChunks + InFlightChunks
    /\ InPin = {} => limiter.pinned_chunks_counter = HeldChunks
    /\ \A t \in Threads :
        LET th == limiter.threads[t] IN
        /\ th.pc = "idle" => ENABLED PinFetchAdd(t)
        /\ th.pc = "check" => ENABLED PinCheck(t)
        /\ th.pc = "unpin" => ENABLED PinUnpin(t) /\ th.exceeded
        /\ th.result = "nullptr" => th.exceeded
        /\ th.result = "token" => ~th.exceeded

\* C24 witness: both threads failed to pin while a token is live, and the
\* counter is back at the chunks the token holds.
C24_Witness ==
    /\ \A t \in Threads : limiter.threads[t].pc = "idle" /\ limiter.threads[t].result = "nullptr"
    /\ HeldChunks > 0
    /\ limiter.pinned_chunks_counter = HeldChunks

\* C25: the counter never goes negative.  Under every interleaving of pins
\* of at least one chunk, releases and capacity updates, every _unpin read a
\* counter of at least 1 before its decrement, and the counter is at least 0
\* after every decrement.
C25_CounterNeverNegative ==
    /\ limiter.dcheck
    /\ limiter.pinned_chunks_counter >= 0

\* C25 witness: a failed pin has run _unpin, which brought the counter back
\* to 0, the other thread being outside pin.
C25_Witness ==
    /\ \E t \in Threads : limiter.threads[t].pc = "idle" /\ limiter.threads[t].result = "nullptr"
    /\ InPin = {}
    /\ limiter.pinned_chunks_counter = 0
    /\ limiter.dcheck

\* C28: with a fixed capacity the chunks held by live tokens never exceed
\* the capacity, under every interleaving of pins and releases; the counter
\* is never less than the chunks held.
C28_HeldWithinCapacity ==
    /\ HeldChunks <= limiter.capacity
    /\ limiter.pinned_chunks_counter >= HeldChunks

\* C28 witness: the live tokens hold exactly the capacity, a pin of another
\* thread has incremented the counter past it and is being refused.
C28_Witness ==
    /\ HeldChunks = limiter.capacity
    /\ limiter.pinned_chunks_counter > limiter.capacity
    /\ \E t \in Threads : limiter.threads[t].pc = "unpin"

\* ---------------------------------------------------------------------------
\* Join runtime IN-lists on a DATE column
\* ---------------------------------------------------------------------------

\* Conjuncts on the DATE column c0: IN-lists tagged as join runtime filters,
\* over dates and over timestamps of the column cast to DATETIME, a runtime
\* list with is_not_in (of opcode FILTER_IN, as a join runtime filter builds
\* it), a static IN-list and comparisons with a date.
DateRuntimeConjuncts ==
    { InPred(D0, {1, 2}, FALSE, FALSE, TRUE),
      RuntimeInPred(D0, {2}, FALSE, TRUE),
      InPred(CastD0, { Timestamp(1, 0), Timestamp(2, 0) }, FALSE, FALSE, TRUE),
      InPred(D0, {2, 3}, FALSE, FALSE, FALSE),
      Bin("GE", D0, Lit("DATE", 1)),
      Bin("EQ", D0, Lit("DATE", 2)) }

InitDateRF ==
    \E exprs \in SeqsUpTo(DateRuntimeConjuncts, MaxConjuncts) :
    \E col_expr \in BOOLEAN :
        Constructed(Options(TupleD, << "c0" >>, FALSE, 2, col_expr, << >>),
                    Config(TRUE), exprs)

SpecDateRF == InitDateRF /\ [][Next]_vars

\* The normalization is under way and has not taken the runtime-filter step
\* of the k-th slot: it is at an earlier slot, or at one of the five steps of
\* the k-th.
RuntimeFilterStepToCome(k) == pc.phase = "normalize" /\ pc.slot <= k

\* C26: as long as the runtime-filter step of a slot is still to come, an
\* IN-list on that slot tagged as a join runtime filter is not flagged
\* normalized, whatever the type of the slot: the IN-list / equality step
\* leaves such a predicate alone.
C26_StaticStepSkipsRuntimeFilters ==
    \A i \in ConjunctIndexes : \A k \in 1..Len(opts.tuple_desc) :
        RuntimeInListOver(i, k) /\ RuntimeFilterStepToCome(k) =>
            ~root_builder.normalized_exprs[i]

\* ---------------------------------------------------------------------------
\* Scan keys that have taken a range value
\* ---------------------------------------------------------------------------

\* The length of the scan key rows: the number of key columns extended.
RowLen == Len(root_builder.scan_keys.begin_scan_keys[1])

\* The range of the k-th key column.
KeyColumnRange(k) == root_builder.column_value_ranges[opts.key_column_names[k]]

\* The lower and the upper bound a range contributes when it is not
\* enumerated.
LowBound(range) ==
    IF is_fixed_value_range(range) THEN SetMin(range.fixed_values) ELSE range.low_value

HighBound(range) ==
    IF is_fixed_value_range(range) THEN SetMax(range.fixed_values) ELSE range.high_value

IsCompound(e) == e.op \in {"COMPOUND_OR", "COMPOUND_AND"}

RECURSIVE NestedBuilders(_)
\* The builders kept below the builder b: its child builders and theirs.
NestedBuilders(b) ==
    UNION { { b.child_builders[k] } \cup NestedBuilders(b.child_builders[k]) :
            k \in 1..Len(b.child_builders) }

\* The child builder _normalize_and_or_predicate makes for the compound
\* predicate e, as parse_conjuncts leaves it, kept or not.
NestedBuilderOf(e) ==
    parse_conjuncts(ChunkPredicateBuilder(IF e.op = "COMPOUND_OR" THEN "OR" ELSE "AND",
                                          e.children, FALSE),
                    opts, config).builder

\* The builders made for the compound conjuncts of the list, kept or not,
\* and the builders kept below them.
AttemptedBuilders ==
    LET top == { NestedBuilderOf(conjunct_ctxs[i]) :
                    i \in { j \in ConjunctIndexes : IsCompound(conjunct_ctxs[j]) } }
    IN  top \cup UNION { NestedBuilders(b) : b \in top }

\* The builder b forbids partial normalization and holds nothing but
\* column-expression predicates and child builders: no column range, no native
\* filter condition, no null condition, no scan key, and each flagged
\* expression was taken by the column-expression pushdown or, when compound,
\* by a child builder.
OnlyColumnExprPushdown(b) ==
    /\ ~b.allow_partial_normalized
    /\ b.column_value_ranges = [c \in ColNameSet |-> NoRange]
    /\ b.olap_filters = << >>
    /\ b.is_null_vector = << >>
    /\ b.scan_keys = NewScanKeys
    /\ b.unarrived_rf = << >>
    /\ \A i \in 1..Len(b.exprs) :
        b.normalized_exprs[i] =>
            \/ /\ opts.enable_column_expr_predicate
               /\ \E k \in 1..Len(b.slot_index_to_expr_ctxs) :
                    b.slot_index_to_expr_ctxs[k][2] = b.exprs[i]
            \/ /\ IsCompound(b.exprs[i])
               /\ \E k \in 1..Len(b.child_builders) :
                    b.child_builders[k].exprs = b.exprs[i].children

\* C29: every builder made for a nested OR / AND, kept below the root
\* builder or dropped, forbids partial normalization and holds no column
\* range, native filter condition, null condition or scan key; what it
\* flagged was taken by column-expression pushdown or by a child builder of
\* the same kind.  With column-expression pushdown off no OR conjunct is ever
\* flagged, the root keeps no child builder, and after a successful
\* preparation every OR conjunct is among the residual conjuncts.
C29_NestedBuildersOnlyColumnExpr ==
    /\ \A b \in NestedBuilders(root_builder) \cup AttemptedBuilders : OnlyColumnExprPushdown(b)
    /\ ~opts.enable_column_expr_predicate =>
        /\ root_builder.child_builders = << >>
        /\ \A i \in ConjunctIndexes :
            conjunct_ctxs[i].op = "COMPOUND_OR" =>
                /\ ~root_builder.normalized_exprs[i]
                /\ Prepared => RejectedWhole(i)

\* C29 witness: with column-expression pushdown on, the root keeps the
\* builder of an OR that itself keeps the builder of a nested AND; both are
\* fully flagged and hold column-expression predicates, and nothing else.
C29_Witness ==
    /\ Prepared
    /\ opts.enable_column_expr_predicate
    /\ \E k \in 1..Len(root_builder.child_builders) :
        LET b == root_builder.child_builders[k] IN
        /\ b.type = "OR"
        /\ b.slot_index_to_expr_ctxs # << >>
        /\ \A i \in 1..Len(b.exprs) : b.normalized_exprs[i]
        /\ \E j \in 1..Len(b.child_builders) :
            /\ b.child_builders[j].type = "AND"
            /\ Len(b.child_builders[j].slot_index_to_expr_ctxs) = 2
            /\ OnlyColumnExprPushdown(b.child_builders[j])
        /\ OnlyColumnExprPushdown(b)

\* ---------------------------------------------------------------------------
\* The normalized flags of a builder
\* ---------------------------------------------------------------------------

\* The builder b with every flagged expression replaced by one that no step
\* folds.
Masked(b) ==
    [b EXCEPT !.exprs = [i \in 1..Len(b.exprs) |->
                            IF b.normalized_exprs[i] THEN RandExpr ELSE b.exprs[i]]]

\* What the step parse_conjuncts is about to take makes of the builder b.
NextStepOf(b) ==
    CASE pc.phase = "normalize" ->
            normalize_predicate_step(b, opts, opts.tuple_desc[pc.slot], NormalizeSteps[pc.step])
      [] pc.phase = "build_column_expr" ->
            IF opts.enable_column_expr_predicate THEN build_column_expr_predicates(b, opts) ELSE b
      [] pc.phase = "normalize_and_or" -> normalize_and_or_predicates(b, opts, config).builder
      [] OTHER -> b

\* The next step skips the flagged conjuncts: it does to the builder what it
\* would do were they expressions it cannot fold.
NextStepSkipsFlagged ==
    [NextStepOf(Masked(root_builder)) EXCEPT !.exprs = root_builder.exprs] =
        NextStepOf(root_builder)

\* The positions of the root builder that are flagged.
FlaggedIndexes == { i \in 1..Len(root_builder.exprs) : root_builder.normalized_exprs[i] }

\* No more null conditions, column-expression predicates and child builders
\* than flagged conjuncts.
OnePushPerFlag ==
    Len(root_builder.is_null_vector) + Len(root_builder.slot_index_to_expr_ctxs)
        + Len(root_builder.child_builders) <= Cardinality(FlaggedIndexes)

\* No step clears a flag.
FlagsOnlyRise ==
    /\ Len(root_builder'.normalized_exprs) = Len(root_builder.normalized_exprs)
    /\ \A i \in 1..Len(root_builder.normalized_exprs) :
            root_builder.normalized_exprs[i] => root_builder'.normalized_exprs[i]

\* C30: in the root builder a flag, once true, stays true through every step
\* of parse_conjuncts; every step (the five range steps of each slot, the
\* column-expression pushdown, the AND/OR normalization) leaves the flagged
\* conjuncts out; and the null conditions, column-expression predicates and
\* child builders pushed are never more than the flagged conjuncts.
C30_FlagsMonotoneStepsSkip ==
    /\ [](NextStepSkipsFlagged /\ OnePushPerFlag)
    /\ [][FlagsOnlyRise]_vars

\* C30 witness: with column-expression pushdown on, a single-slot conjunct
\* folded into c0's range was not taken again by the column-expression
\* pushdown, which took another conjunct.
C30_Witness ==
    /\ Prepared
    /\ opts.enable_column_expr_predicate
    /\ \E i \in ConjunctIndexes :
        /\ conjunct_ctxs[i] = Bin("EQ", A0, Lit("INT", 1))
        /\ root_builder.normalized_exprs[i]
        /\ root_builder.column_value_ranges["c0"].fixed_values = {1}
    /\ \E i \in ConjunctIndexes :
        /\ conjunct_ctxs[i] = AbsExpr
        /\ root_builder.normalized_exprs[i]
    /\ Len(root_builder.slot_index_to_expr_ctxs) = 1
    /\ root_builder.slot_index_to_expr_ctxs[1][2] = AbsExpr

====
